---- MODULE Spec2Model ----
(***************************************************************************)
(* Model of the OCR post-processing and field-reconciliation core of       *)
(* credit-ocr-backend:                                                     *)
(*   src/src/ocr/postprocess.py   extract_label_value_pairs,               *)
(*                                normalize_ocr_lines                      *)
(*   src/src/llm/field_extractor.py  extract_fields_with_llm (async),      *)
(*                                extract_json_from_response,              *)
(*                                validate_field                           *)
(*   src/src/ocr/extraction.py    the pipeline stage functions             *)
(*                                                                         *)
(* Representation.                                                         *)
(*   - A Python str is a sequence of one-character strings, so that        *)
(*     strip(), split(":", 1), lower() and the `in` substring test are     *)
(*     computed, not assumed.                                              *)
(*   - Coordinates are integers in hundredths of a page unit, confidences  *)
(*     integers in hundredths; a centre (a mean of points) is kept as the  *)
(*     exact fraction [n, d] and compared by cross-multiplication.         *)
(*   - An optional value is a sequence of length at most one: None is     *)
(*     <<>>, a confidence of 0.9 is <<90>>.  A dictionary key that is not  *)
(*     present is a record field that is not present.  A bounding box is   *)
(*     None or a non-empty list of points (the token extractor emits None  *)
(*     for a missing polygon, never an empty list).                        *)
(***************************************************************************)
EXTENDS Integers, Sequences, FiniteSets, TLC

None == <<>>

\* ---------------------------------------------------------------------
\* Bounds of the model
\* ---------------------------------------------------------------------
MaxTokens == 3
MaxItems == 2
MaxOriginal == 1
MaxFields == 2

\* ---------------------------------------------------------------------
\* Python str helpers
\* ---------------------------------------------------------------------
\* the whitespace of str.strip() and of the JSON decoder
IsSpace(c) == c \in {" ", "\n"}

RECURSIVE lstrip(_)
lstrip(s) ==
    IF s = <<>> THEN <<>>
    ELSE IF IsSpace(Head(s)) THEN lstrip(Tail(s)) ELSE s

RECURSIVE rstrip(_)
rstrip(s) ==
    IF s = <<>> THEN <<>>
    ELSE IF IsSpace(s[Len(s)]) THEN rstrip(SubSeq(s, 1, Len(s) - 1)) ELSE s

\* str.strip()
strip(s) == rstrip(lstrip(s))

\* ":" in text
HasColon(s) == \E i \in 1..Len(s) : s[i] = ":"

FirstColon(s) ==
    CHOOSE i \in 1..Len(s) : s[i] = ":" /\ \A j \in 1..(i - 1) : s[j] # ":"

\* map(str.strip, text.split(":", 1))
SplitColon(s) ==
    LET i == FirstColon(s)
    IN  << strip(SubSeq(s, 1, i - 1)), strip(SubSeq(s, i + 1, Len(s))) >>

\* ---------------------------------------------------------------------
\* Geometry helpers of extract_label_value_pairs
\* ---------------------------------------------------------------------
x_split == 250
y_thresh == 20
\* threshold=0.1 of are_horizontally_aligned, as the divisor 1/threshold
align_div == 10

Abs(n) == IF n < 0 THEN -n ELSE n

RECURSIVE SumX(_)
SumX(box) == IF box = <<>> THEN 0 ELSE Head(box).x + SumX(Tail(box))

RECURSIVE SumY(_)
SumY(box) == IF box = <<>> THEN 0 ELSE Head(box).y + SumY(Tail(box))

\* `if box` / `not box`: false for None (and for the empty list, which is None here)
BoxFalsy(box) == box = None

get_center_y(box) ==
    IF BoxFalsy(box) THEN [n |-> 0, d |-> 1] ELSE [n |-> SumY(box), d |-> Len(box)]

get_center_x(box) ==
    IF BoxFalsy(box) THEN [n |-> 0, d |-> 1] ELSE [n |-> SumX(box), d |-> Len(box)]

MaxOf(S) == CHOOSE m \in S : \A k \in S : k <= m
MinOf(S) == CHOOSE m \in S : \A k \in S : m <= k

get_box_height(box) ==
    IF BoxFalsy(box) THEN 0
    ELSE MaxOf({box[k].y : k \in 1..Len(box)}) - MinOf({box[k].y : k \in 1..Len(box)})

\* exact comparison of two fractions with positive denominators
FracLt(a, b) == a.n * b.d < b.n * a.d
\* abs(a - b) <= c, c an integer
FracDistLe(a, b, c) == Abs(a.n * b.d - b.n * a.d) <= c * a.d * b.d

are_horizontally_aligned(box1, box2) ==
    IF BoxFalsy(box1) \/ BoxFalsy(box2) THEN FALSE
    ELSE LET y1 == get_center_y(box1)
             y2 == get_center_y(box2)
             height == IF get_box_height(box1) >= get_box_height(box2)
                       THEN get_box_height(box1) ELSE get_box_height(box2)
         IN  Abs(y1.n * y2.d - y2.n * y1.d) * align_div <= height * y1.d * y2.d

\* ---------------------------------------------------------------------
\* Python built-ins used by the pair extractor
\* ---------------------------------------------------------------------
NoError == "ok"
TypeError == "TypeError"

\* dict.get("confidence"): None when the key is absent
HasConf(tok) == "confidence" \in DOMAIN tok

GetConf(tok) == IF HasConf(tok) THEN tok.confidence ELSE None

\* variant: `tok.get("confidence") or default`, the default for None as well
GetConfDefault_NoneAsDefault(tok, default) ==
    IF HasConf(tok) /\ tok.confidence # None THEN tok.confidence ELSE default

\* dict.get("confidence", default): the default only when the key is absent
GetConfDefault(tok, default) ==
    IF HasConf(tok) THEN tok.confidence ELSE default

\* min(a, b) compares b < a, which raises TypeError when either is None
PyMinRaises(a, b) == a = None \/ b = None

\* min(a, b) of two floats
PyMin(a, b) == IF b[1] < a[1] THEN b ELSE a

\* the default 1.0 of line.get("confidence", 1.0)
conf_default_pair == << 100 >>

\* list.index(x): position of the first element equal to x
FirstIndex(lines, x) ==
    CHOOSE k \in 1..Len(lines) : lines[k] = x /\ \A m \in 1..(k - 1) : lines[m] # x

\* sort key (x["page"], get_center_y(x["bounding_box"]))
KeyLt(a, b) ==
    \/ a.page < b.page
    \/ /\ a.page = b.page
       /\ FracLt(get_center_y(a.bounding_box), get_center_y(b.bounding_box))

RECURSIVE InsertSorted(_, _)
InsertSorted(s, x) ==
    IF s = <<>> THEN << x >>
    ELSE IF KeyLt(x, Head(s)) THEN << x >> \o s
    ELSE << Head(s) >> \o InsertSorted(Tail(s), x)

RECURSIVE SortFrom(_, _)
SortFrom(rest, acc) ==
    IF rest = <<>> THEN acc ELSE SortFrom(Tail(rest), InsertSorted(acc, Head(rest)))

\* sorted(ocr_lines, key=...): a new, stably sorted list
sorted_lines(ocr_lines) == SortFrom(ocr_lines, <<>>)

IsLine(tok) == tok.type = "line"

\* variant: one buffer for the lines of all pages
page_buffer_AllPages(sorted, page) == SelectSeq(sorted, LAMBDA t : IsLine(t))

\* page_buffers[page]: the line tokens of one page, in sorted order
page_buffer(sorted, page) ==
    SelectSeq(sorted, LAMBDA t : IsLine(t) /\ t.page = page)

\* the keys of page_buffers in insertion order (ascending, the list is sorted)
RECURSIVE AscendingSeq(_)
AscendingSeq(S) ==
    IF S = {} THEN <<>>
    ELSE LET m == MinOf(S) IN << m >> \o AscendingSeq(S \ {m})

page_keys(sorted) ==
    AscendingSeq({sorted[k].page : k \in {m \in 1..Len(sorted) : IsLine(sorted[m])}})

\* ---------------------------------------------------------------------
\* First pass: colon-separated pairs
\* ---------------------------------------------------------------------
ColonSplits(line) ==
    LET text == strip(line.text)
    IN  /\ HasColon(text)
        /\ SplitColon(text)[1] # <<>>
        /\ SplitColon(text)[2] # <<>>

ColonStep(lines, page, i, acc) ==
    LET line == lines[i]
        text == strip(line.text)
    IN  IF i \in acc.used THEN acc
        ELSE IF ColonSplits(line)
        THEN [acc EXCEPT
                !.results = Append(@, [label |-> SplitColon(text)[1],
                                       value |-> SplitColon(text)[2],
                                       page |-> page,
                                       confidence |-> GetConf(line),
                                       bounding_box |-> line.bounding_box]),
                !.trace = Append(@, [how |-> "colon", page |-> page,
                                     label_line |-> line, value_line |-> line,
                                     li |-> i, vi |-> i, marked |-> i,
                                     used_before |-> acc.used,
                                     emitted |-> TRUE]),
                !.used = @ \cup {i}]
        ELSE acc

RECURSIVE ColonLoop(_, _, _, _)
ColonLoop(lines, page, i, acc) ==
    IF i > Len(lines) THEN acc
    ELSE ColonLoop(lines, page, i + 1, ColonStep(lines, page, i, acc))

\* ---------------------------------------------------------------------
\* Second pass: aligned rows and the forward window
\* ---------------------------------------------------------------------
\* float('inf') as the value of best_value_x
Inf == <<>>

\* variant: the inner loops do not skip used lines
SkipUsed_Never(j, used) == FALSE

\* `if j in used_indices: continue` of both inner loops
SkipUsed(j, used) == j \in used

\* variant: the comparison with best_value_x is missing
IsBetterValue_NoXCompare(line, next_line, best_value_x) ==
    LET cx == get_center_x(line.bounding_box)
        next_cx == get_center_x(next_line.bounding_box)
    IN  /\ are_horizontally_aligned(line.bounding_box, next_line.bounding_box)
        /\ FracLt(cx, next_cx)

\* the condition under which next_line replaces best_value_line
IsBetterValue(line, next_line, best_value_x) ==
    LET cx == get_center_x(line.bounding_box)
        next_cx == get_center_x(next_line.bounding_box)
    IN  /\ are_horizontally_aligned(line.bounding_box, next_line.bounding_box)
        /\ FracLt(cx, next_cx)
        /\ (best_value_x = Inf \/ FracLt(next_cx, best_value_x[1]))

\* for j, next_line in enumerate(lines): ... ; best.j = 0 stands for None
RECURSIVE AlignedLoop(_, _, _, _, _)
AlignedLoop(lines, i, used, j, best) ==
    IF j > Len(lines) THEN best
    ELSE IF SkipUsed(j, used) THEN AlignedLoop(lines, i, used, j + 1, best)
    ELSE IF IsBetterValue(lines[i], lines[j], best.x)
         THEN AlignedLoop(lines, i, used, j + 1,
                          [j |-> j, x |-> << get_center_x(lines[j].bounding_box) >>])
         ELSE AlignedLoop(lines, i, used, j + 1, best)

\* the test of the forward window on next_line
IsWindowValue(line, next_line) ==
    LET cy == get_center_y(line.bounding_box)
        next_cx == get_center_x(next_line.bounding_box)
        next_cy == get_center_y(next_line.bounding_box)
    IN  /\ FracLt([n |-> x_split, d |-> 1], next_cx)
        /\ FracDistLe(next_cy, cy, y_thresh)

\* variant: the window reaches the third line after the label
window_last_ThreeLines(i, n) == IF i + 3 < n THEN i + 3 ELSE n

\* range(i + 1, min(i + 3, len(lines))), shifted to 1-based positions
window_last(i, n) == IF i + 2 < n THEN i + 2 ELSE n

\* the first accepted position of the window, 0 when there is none
RECURSIVE WindowLoop(_, _, _, _)
WindowLoop(lines, i, used, j) ==
    IF j > window_last(i, Len(lines)) THEN 0
    ELSE IF SkipUsed(j, used) THEN WindowLoop(lines, i, used, j + 1)
    ELSE IF IsWindowValue(lines[i], lines[j]) THEN j
    ELSE WindowLoop(lines, i, used, j + 1)

\* results.append({...}) of the second pass, then used_indices.update;
\* min() raising leaves results and used_indices as they were
EmitPair(lines, page, i, j, marked, how, acc) ==
    LET line == lines[i]
        value_line == lines[j]
        a == GetConfDefault(line, conf_default_pair)
        b == GetConfDefault(value_line, conf_default_pair)
        raises == PyMinRaises(a, b)
        entry == [how |-> how, page |-> page,
                  label_line |-> line, value_line |-> value_line,
                  li |-> i, vi |-> j, marked |-> marked,
                  used_before |-> acc.used,
                  emitted |-> ~raises]
    IN  IF raises
        THEN [acc EXCEPT !.trace = Append(@, entry), !.err = TypeError]
        ELSE [acc EXCEPT
                !.results = Append(@, [label |-> strip(line.text),
                                       value |-> strip(value_line.text),
                                       page |-> page,
                                       confidence |-> PyMin(a, b),
                                       bounding_box |-> value_line.bounding_box]),
                !.trace = Append(@, entry),
                !.used = @ \cup {i, marked}]

GeomStep(lines, page, i, acc) ==
    LET line == lines[i]
        cx == get_center_x(line.bounding_box)
        best == AlignedLoop(lines, i, acc.used, 1, [j |-> 0, x |-> Inf])
        w == WindowLoop(lines, i, acc.used, i + 1)
    IN  IF i \in acc.used THEN acc
        ELSE IF ~FracLt(cx, [n |-> x_split, d |-> 1]) THEN acc
        ELSE IF best.j # 0
             THEN EmitPair(lines, page, i, best.j,
                           FirstIndex(lines, lines[best.j]), "aligned", acc)
        ELSE IF w # 0 THEN EmitPair(lines, page, i, w, w, "window", acc)
        ELSE [acc EXCEPT
                !.trace = Append(@, [how |-> "none", page |-> page,
                                     label_line |-> line, value_line |-> line,
                                     li |-> i, vi |-> 0, marked |-> 0,
                                     used_before |-> acc.used,
                                     emitted |-> FALSE])]

RECURSIVE GeomLoop(_, _, _, _)
GeomLoop(lines, page, i, acc) ==
    IF i > Len(lines) \/ acc.err # NoError THEN acc
    ELSE GeomLoop(lines, page, i + 1, GeomStep(lines, page, i, acc))

\* for page, lines in page_buffers.items(): used_indices = set(); pass 1; pass 2
RECURSIVE PageLoop(_, _, _)
PageLoop(sorted, pages, acc) ==
    IF pages = <<>> \/ acc.err # NoError THEN acc
    ELSE LET page == Head(pages)
             lines == page_buffer(sorted, page)
             fresh == [acc EXCEPT !.used = {}]
             pass1 == ColonLoop(lines, page, 1, fresh)
             pass2 == GeomLoop(lines, page, 1, pass1)
         IN  PageLoop(sorted, Tail(pages), pass2)

\* extract_label_value_pairs(ocr_lines) with the default y_thresh and x_split:
\* .results is the returned list (returned when .err is NoError), .err the
\* exception that escapes, .trace the decisions taken: one entry per colon
\* pair and one per label line examined by the second pass ("aligned",
\* "window", or "none" when no value was found)
extract_label_value_pairs(ocr_lines) ==
    LET sorted == sorted_lines(ocr_lines)
    IN  PageLoop(sorted, page_keys(sorted),
                 [results |-> <<>>, trace |-> <<>>, used |-> {}, err |-> NoError])

\* ---------------------------------------------------------------------
\* normalize_ocr_lines
\* ---------------------------------------------------------------------
\* next((line for line in ocr_lines if line["text"] == text), None)
RECURSIVE FirstWithText(_, _)
FirstWithText(ocr_lines, text) ==
    IF ocr_lines = <<>> THEN None
    ELSE IF Head(ocr_lines).text = text THEN << Head(ocr_lines) >>
    ELSE FirstWithText(Tail(ocr_lines), text)

\* the confidence of a label_value item
pair_confidence(p, ocr_lines) ==
    LET label_ocr == FirstWithText(ocr_lines, p.label)
        value_ocr == FirstWithText(ocr_lines, p.value)
        label_conf == GetConf(label_ocr[1])
        value_conf == GetConf(value_ocr[1])
    IN  IF p.confidence = None /\ label_ocr # None /\ value_ocr # None
        THEN IF label_conf # None /\ value_conf # None THEN PyMin(label_conf, value_conf)
             ELSE IF label_conf # None THEN label_conf
             ELSE IF value_conf # None THEN value_conf
             ELSE None
        ELSE p.confidence

label_value_item(p, ocr_lines) ==
    [type |-> "label_value", label |-> p.label, value |-> p.value,
     page |-> p.page, confidence |-> pair_confidence(p, ocr_lines),
     bounding_box |-> p.bounding_box]

RECURSIVE label_value_items(_, _)
label_value_items(pairs, ocr_lines) ==
    IF pairs = <<>> THEN <<>>
    ELSE << label_value_item(Head(pairs), ocr_lines) >>
         \o label_value_items(Tail(pairs), ocr_lines)

\* the two `continue` conditions of the text-line loop
KeepAsTextLine(line) == IsLine(line) /\ line.bounding_box # None

text_line_item(line) ==
    [type |-> "text_line", text |-> strip(line.text), page |-> line.page,
     confidence |-> GetConf(line), bounding_box |-> line.bounding_box]

RECURSIVE text_line_items(_)
text_line_items(ocr_lines) ==
    IF ocr_lines = <<>> THEN <<>>
    ELSE (IF KeepAsTextLine(Head(ocr_lines))
          THEN << text_line_item(Head(ocr_lines)) >> ELSE <<>>)
         \o text_line_items(Tail(ocr_lines))

\* normalize_ocr_lines(ocr_lines): .items is the returned list when .err is
\* NoError; an exception of the pair extractor escapes and nothing is returned
normalize_ocr_lines(ocr_lines) ==
    LET pairs == extract_label_value_pairs(ocr_lines)
    IN  IF pairs.err # NoError THEN [items |-> <<>>, err |-> pairs.err]
        ELSE [items |-> label_value_items(pairs.results, ocr_lines)
                        \o text_line_items(ocr_lines),
              err |-> NoError]

\* ---------------------------------------------------------------------
\* Token lists handed to the post-processing functions
\* ---------------------------------------------------------------------
Box(cx, cy, hw, hh) ==
    << [x |-> cx - hw, y |-> cy - hh], [x |-> cx + hw, y |-> cy - hh],
       [x |-> cx + hw, y |-> cy + hh], [x |-> cx - hw, y |-> cy + hh] >>

Tok(type, text, page, box, conf) ==
    [type |-> type, text |-> text, page |-> page, bounding_box |-> box,
     confidence |-> conf]

TokNoConf(type, text, page, box) ==
    [type |-> type, text |-> text, page |-> page, bounding_box |-> box]

LeftBox == Box(50, 100, 40, 10)
NearBox == Box(300, 101, 40, 10)
FarBox == Box(400, 101, 40, 10)
BelowBox == Box(300, 115, 40, 10)
TopBox == Box(300, 10, 40, 10)

TokenPool ==
    { Tok("line", << "a" >>, 1, LeftBox, << 90 >>),
      Tok("line", << "b" >>, 1, NearBox, << 80 >>),
      Tok("line", << "c" >>, 1, FarBox, << 70 >>),
      Tok("line", << "d" >>, 1, BelowBox, None),
      Tok("line", << "a", ":", " ", "b" >>, 1, NearBox, << 60 >>),
      Tok("line", << "a", ":", "b" >>, 1, None, None),
      Tok("line", << " " >>, 1, LeftBox, << 90 >>),
      Tok("line", << "a" >>, 1, LeftBox, None),
      Tok("word", << "b" >>, 1, NearBox, << 85 >>),
      Tok("line", << "b" >>, 2, NearBox, << 80 >>),
      TokNoConf("line", << "a" >>, 2, LeftBox),
      Tok("line", << "a", ":" >>, 1, Box(50, 115, 40, 10), << 50 >>),
      Tok("line", << "a" >>, 1, None, << 90 >>),
      Tok("line", << "e" >>, 1, TopBox, << 80 >>) }

RECURSIVE SeqsUpTo(_, _)
SeqsUpTo(S, n) ==
    IF n = 0 THEN { <<>> }
    ELSE LET shorter == SeqsUpTo(S, n - 1)
         IN  shorter \cup { Append(q, t) : q \in shorter, t \in S }

TokenLists == SeqsUpTo(TokenPool, MaxTokens)

\* ---------------------------------------------------------------------
\* Python dict and str helpers of the field extractor
\* ---------------------------------------------------------------------
\* A dict is the sequence of its entries [k, v] in insertion order.
DictHas(d, key) == \E n \in 1..Len(d) : d[n].k = key

DictGet(d, key) == d[CHOOSE n \in 1..Len(d) : d[n].k = key].v

\* d[key] = val: an existing key keeps its position
DictSet(d, key, val) ==
    IF DictHas(d, key)
    THEN [n \in 1..Len(d) |-> IF d[n].k = key THEN [k |-> key, v |-> val] ELSE d[n]]
    ELSE Append(d, [k |-> key, v |-> val])

UpperCase == {"A", "B", "F", "N"}

LowerChar(c) ==
    IF c \notin UpperCase THEN c
    ELSE CASE c = "A" -> "a" [] c = "B" -> "b" [] c = "F" -> "f" [] c = "N" -> "n"

\* str.lower()
lower(str) == [n \in 1..Len(str) |-> LowerChar(str[n])]

\* `sub in str` for two strings
Contains(str, sub) ==
    \E start \in 0..(Len(str) - Len(sub)) :
        \A n \in 1..Len(sub) : str[start + n] = sub[n]

\* ---------------------------------------------------------------------
\* extract_fields_with_llm (the async function of field_extractor.py)
\* ---------------------------------------------------------------------
\* variant: the default confidence is None
default_confidence_Unknown == None

\* {"confidence": 0.5}, and the default of .get("confidence", 0.5)
default_confidence == << 50 >>

\* german_labels: the lower-cased keys of field_mappings mapped to field_name
RECURSIVE german_labels(_, _)
german_labels(field_mappings, field_name) ==
    IF field_mappings = <<>> THEN <<>>
    ELSE (IF Head(field_mappings).v = field_name
          THEN << lower(Head(field_mappings).k) >> ELSE <<>>)
         \o german_labels(Tail(field_mappings), field_name)

AnyLabelIn(labels, text) == \E n \in 1..Len(labels) : Contains(text, labels[n])

\* variant: every label_value item is taken as a match
PairMatches_AnyPair(line, value_str, labels) == line.type = "label_value"

\* the test `any(label in line_label ...) or value_str in line_value`
PairMatches(line, value_str, labels) ==
    /\ line.type = "label_value"
    /\ \/ AnyLabelIn(labels, lower(line.label))
       \/ Contains(lower(line.value), value_str)

\* variant: the loop over original_ocr_lines does not skip tokens of other types
LineMatches_AnyType(line, value_str, labels) ==
    \/ Contains(lower(line.text), value_str)
    \/ AnyLabelIn(labels, lower(line.text))

\* the test of the loop over original_ocr_lines
LineMatches(line, value_str, labels) ==
    /\ line.type = "line"
    /\ \/ Contains(lower(line.text), value_str)
       \/ AnyLabelIn(labels, lower(line.text))

\* position of the first element of a list that passes a test, 0 if none
RECURSIVE FirstPairMatch(_, _, _, _)
FirstPairMatch(lines, value_str, labels, n) ==
    IF n > Len(lines) THEN 0
    ELSE IF PairMatches(lines[n], value_str, labels) THEN n
    ELSE FirstPairMatch(lines, value_str, labels, n + 1)

RECURSIVE FirstLineMatch(_, _, _, _)
FirstLineMatch(lines, value_str, labels, n) ==
    IF n > Len(lines) THEN 0
    ELSE IF LineMatches(lines[n], value_str, labels) THEN n
    ELSE FirstLineMatch(lines, value_str, labels, n + 1)

\* Step 2: `if not isinstance(field_data, dict)` and `if "value" not in field_data`
coerced_value(field_data) ==
    IF field_data.kind = "raw" THEN field_data.value
    ELSE IF field_data.has_value THEN field_data.value
    ELSE None

\* Step 3 for one field: the entry stored in extracted_fields, and in .via /
\* .at the list ("pair" = ocr_lines, "line" = original_ocr_lines) and the
\* position of the item the data was copied from
ground_field(field_name, field_data, ocr_lines_arg, original_arg, doc_config) ==
    LET value == coerced_value(field_data)
        value_str == lower(value[1])
        labels == german_labels(doc_config.field_mappings, field_name)
        mp == FirstPairMatch(ocr_lines_arg, value_str, labels, 1)
        ml == IF original_arg = None \/ original_arg[1] = <<>> THEN 0
              ELSE FirstLineMatch(original_arg[1], value_str, labels, 1)
        ungrounded == [value |-> value, confidence |-> default_confidence]
    IN  IF value = None
        THEN [data |-> ungrounded, via |-> "none", at |-> 0]
        ELSE IF mp # 0
        THEN [data |-> [value |-> << ocr_lines_arg[mp].value >>,
                        confidence |-> GetConfDefault(ocr_lines_arg[mp], default_confidence),
                        bounding_box |-> ocr_lines_arg[mp].bounding_box,
                        page |-> << ocr_lines_arg[mp].page >>],
              via |-> "pair", at |-> mp]
        ELSE IF ml # 0
        THEN [data |-> [value |-> << original_arg[1][ml].text >>,
                        confidence |-> GetConfDefault(original_arg[1][ml], default_confidence),
                        bounding_box |-> original_arg[1][ml].bounding_box,
                        page |-> << original_arg[1][ml].page >>],
              via |-> "line", at |-> ml]
        ELSE [data |-> ungrounded, via |-> "none", at |-> 0]

\* Steps 2 and 3: the loop over llm_result["extracted_fields"].items()
RECURSIVE ground_fields(_, _, _, _, _)
ground_fields(fields, ocr_lines_arg, original_arg, doc_config, acc) ==
    IF fields = <<>> THEN acc
    ELSE LET g == ground_field(Head(fields).k, Head(fields).v,
                               ocr_lines_arg, original_arg, doc_config)
         IN  ground_fields(Tail(fields), ocr_lines_arg, original_arg, doc_config,
                 [extracted |-> DictSet(acc.extracted, Head(fields).k, g.data),
                  grounding |-> Append(acc.grounding,
                                       [field |-> Head(fields).k,
                                        asked |-> coerced_value(Head(fields).v),
                                        via |-> g.via, at |-> g.at])])

\* Step 4: apply field mappings
RECURSIVE apply_field_mappings(_, _, _)
apply_field_mappings(extracted, field_mappings, mapped) ==
    IF extracted = <<>> THEN mapped
    ELSE LET name == Head(extracted).k
             mapped_name == IF DictHas(field_mappings, name)
                            THEN DictGet(field_mappings, name) ELSE name
         IN  apply_field_mappings(Tail(extracted), field_mappings,
                                  DictSet(mapped, mapped_name, Head(extracted).v))

\* str(value).lower() of a field value that is None or a string
StrLower(value) == IF value = None THEN << "n", "o", "n", "e" >> ELSE lower(value[1])

\* s.find(sub, from) with positions counted from 1: the first position not
\* before from where sub starts, 0 when there is none
Find(s, sub, from) ==
    LET ps == { p \in from..Len(s) :
                  /\ p + Len(sub) - 1 <= Len(s)
                  /\ \A n \in 1..Len(sub) : s[p + n - 1] = sub[n] }
    IN  IF ps = {} THEN 0 ELSE CHOOSE p \in ps : \A q \in ps : p <= q

DigitChars == << "0", "1", "2", "3", "4", "5", "6", "7", "8", "9" >>
IsDigit(c) == \E n \in 1..10 : DigitChars[n] = c
DigitVal(c) == (CHOOSE n \in 1..10 : DigitChars[n] = c) - 1

RECURSIVE IntOf(_)
IntOf(digits) ==
    IF digits = <<>> THEN 0
    ELSE 10 * IntOf(SubSeq(digits, 1, Len(digits) - 1)) + DigitVal(digits[Len(digits)])

\* str.replace(old, new) for a one-character old
RECURSIVE replace(_, _, _)
replace(s, old, new) ==
    IF s = <<>> THEN <<>>
    ELSE (IF Head(s) = old THEN new ELSE << Head(s) >>) \o replace(Tail(s), old, new)

\* field_value.replace(".", "").replace(",", ".")
german_number(s) == replace(replace(s, ".", <<>>), ",", << "." >>)

AllDigits(s) == \A n \in 1..Len(s) : IsDigit(s[n])

RECURSIVE Pow10(_)
Pow10(k) == IF k = 0 THEN 1 ELSE 10 * Pow10(k - 1)

\* float(s) of a string of signs, digits, points and other characters that
\* are no part of a float (no exponent, no inf or nan, no underscore):
\* the exact value n / d, or not ok where float raises ValueError
float_of(s) ==
    LET t == strip(s)
        signed == t # <<>> /\ t[1] \in {"-", "+"}
        body == IF signed THEN Tail(t) ELSE t
        pt == Find(body, << "." >>, 1)
        whole == IF pt = 0 THEN body ELSE SubSeq(body, 1, pt - 1)
        frac == IF pt = 0 THEN <<>> ELSE SubSeq(body, pt + 1, Len(body))
        mag == IntOf(whole \o frac)
    IN  IF AllDigits(whole) /\ AllDigits(frac) /\ Len(whole) + Len(frac) > 0
        THEN [ok |-> TRUE, n |-> IF signed /\ t[1] = "-" THEN -mag ELSE mag,
              d |-> Pow10(Len(frac))]
        ELSE [ok |-> FALSE]

\* float(field_value) of a field value that is None (TypeError) or a string
float_value(value) == IF value = None THEN [ok |-> FALSE] ELSE float_of(value[1])

\* `if isinstance(field_value, str): field_value = field_value.replace(...)`
converted(value) == IF value = None THEN None ELSE << german_number(value[1]) >>

\* validate_field for rules with "type" and, for numbers, "min" and "max" (no
\* rule of the configuration has a "pattern"); the messages of the range
\* checks end with the rule's bound, which is left out here.  Every step
\* that converts field_value assigns it, so the next step starts from the
\* converted string.
validate_field(field_data, rules) ==
    IF "value" \notin DOMAIN field_data
    THEN [is_valid |-> FALSE, errors |-> << "Invalid field format" >>]
    ELSE
    LET is_number == rules.type = "number"
        has_min == is_number /\ "min" \in DOMAIN rules
        has_max == is_number /\ "max" \in DOMAIN rules
        v0 == field_data.value
        v1 == IF is_number THEN converted(v0) ELSE v0
        v2 == IF has_min THEN converted(v1) ELSE v1
        v3 == IF has_max THEN converted(v2) ELSE v2
        type_errors ==
            IF is_number /\ ~float_value(v1).ok
            THEN << "Value must be a number" >>
            ELSE IF rules.type = "boolean"
                    /\ StrLower(v0) \notin {<< "t", "r", "u", "e" >>,
                                            << "f", "a", "l", "s", "e" >>}
            THEN << "Value must be a boolean" >>
            ELSE <<>>
        min_errors ==
            IF has_min /\ float_value(v2).ok
               /\ float_value(v2).n < rules.min * float_value(v2).d
            THEN << "Value must be at least" >> ELSE <<>>
        max_errors ==
            IF has_max /\ float_value(v3).ok
               /\ float_value(v3).n > rules.max * float_value(v3).d
            THEN << "Value must be at most" >> ELSE <<>>
        errors == type_errors \o min_errors \o max_errors
    IN  [is_valid |-> errors = <<>>, errors |-> errors]

\* variant: the loop ends at the first field that fails its rule
RECURSIVE validate_extracted_fields_UntilFailure(_, _)
validate_extracted_fields_UntilFailure(fields, doc_config) ==
    IF fields = <<>> THEN <<>>
    ELSE IF ~DictHas(doc_config.validation_rules, Head(fields).k)
    THEN validate_extracted_fields_UntilFailure(Tail(fields), doc_config)
    ELSE LET result == validate_field(Head(fields).v,
                                      DictGet(doc_config.validation_rules, Head(fields).k))
         IN  << [k |-> Head(fields).k, v |-> result] >>
             \o (IF result.is_valid
                 THEN validate_extracted_fields_UntilFailure(Tail(fields), doc_config)
                 ELSE <<>>)

\* Step 5: validate_extracted_fields
RECURSIVE validate_extracted_fields(_, _)
validate_extracted_fields(fields, doc_config) ==
    IF fields = <<>> THEN <<>>
    ELSE (IF DictHas(doc_config.validation_rules, Head(fields).k)
          THEN << [k |-> Head(fields).k,
                   v |-> validate_field(Head(fields).v,
                                        DictGet(doc_config.validation_rules, Head(fields).k))] >>
          ELSE <<>>)
         \o validate_extracted_fields(Tail(fields), doc_config)

\* variant: the empty list is not short-circuited
is_empty_input_Never(ocr_lines_arg) == FALSE

\* `if not ocr_lines`
is_empty_input(ocr_lines_arg) == ocr_lines_arg = <<>>

\* variant: a failed generate call is made a second time
generate_attempts_RetryOnce(reply) == IF reply.kind = "generate_raises" THEN 2 ELSE 1

\* The calls of llm_client.generate on the way past line 336: one awaited
\* call outside any loop or handler, and OllamaClient.generate posts once
\* and re-raises what the post raised
generate_attempts(reply) == 1

\* What the generation capability and the decoding of its response give:
\*   [kind |-> "generate_raises"]    llm_client.generate raised
\*   [kind |-> "undecodable"]        extract_json_from_response raised ValueError
\*   [kind |-> "json", extracted_fields |-> None or <<dict>>,
\*                     missing_fields |-> None or <<list>>]
\* extract_fields_with_llm: .calls counts the calls of llm_client.generate
extract_fields_with_llm(ocr_lines_arg, doc_config, llm, original_arg) ==
    IF is_empty_input(ocr_lines_arg)
    THEN [err |-> NoError, calls |-> 0,
          extracted_fields |-> <<>>,
          missing_fields |-> doc_config.expected_fields,
          validation_results |-> <<>>,
          grounding |-> <<>>]
    ELSE IF llm.kind = "generate_raises"
    THEN [err |-> "GenerateError", calls |-> generate_attempts(llm)]
    ELSE IF llm.kind = "undecodable"
    THEN [err |-> "ValueError", calls |-> generate_attempts(llm)]
    ELSE LET fields == IF llm.extracted_fields = None THEN <<>>
                       ELSE llm.extracted_fields[1]
             g == ground_fields(fields, ocr_lines_arg, original_arg, doc_config,
                                [extracted |-> <<>>, grounding |-> <<>>])
             mapped_fields == apply_field_mappings(g.extracted,
                                                   doc_config.field_mappings, <<>>)
         IN  [err |-> NoError, calls |-> generate_attempts(llm),
              extracted_fields |-> mapped_fields,
              missing_fields |-> IF llm.missing_fields = None THEN <<>>
                                 ELSE llm.missing_fields[1],
              validation_results |-> validate_extracted_fields(mapped_fields, doc_config),
              grounding |-> g.grounding]

\* ---------------------------------------------------------------------
\* State
\* ---------------------------------------------------------------------
VARIABLES
    ocr_lines,      \* the token list the caller holds
    input0,         \* the token list as it was handed over
    pairs,          \* outcome of extract_label_value_pairs, None before the call
    out1,           \* outcome of the first normalize_ocr_lines call
    out2,           \* outcome of the second normalize_ocr_lines call
    items,          \* the ocr_lines argument of extract_fields_with_llm
    original,       \* its original_ocr_lines argument: None or << list >>
    llm,            \* what generate returned and decoding gave, None before
    reconciled,     \* outcome of extract_fields_with_llm, None before the call
    response,       \* the text handed to extract_json_from_response
    decoded,        \* outcome of extract_json_from_response, None before the call
    field_in,       \* the field entry handed to validate_field
    rules_in,       \* the rules handed to validate_field
    validation,     \* outcome of validate_field, None before the call
    blobs,          \* the stages that hold an artifact of the document
    job_status,     \* status of the document's latest extraction job, None without a job
    status_updates, \* number of calls of _update_extraction_job_status
    field_rows,     \* whether ExtrahierteDaten holds rows of the document
    stage_calls,    \* number of pipeline functions called
    last_call,      \* the last pipeline function called, its outcome and the state it found
    artifacts,      \* the stages that hold an artifact of the document the tasks work on
    jobs,           \* the Extraktionsauftrag rows of the document, oldest first
    now,            \* the database clock
    runs,           \* the pipeline runs of the document: chain position, state, job created
    doc_status,     \* documents.status of the document, None without a row
    api_calls,      \* number of requests the API has answered
    last_task,      \* the last task or request, its outcome and the job rows it found
    instance,       \* BlobStorage._instance: 0 for None, else the object
    class_lock,     \* the thread that holds BlobStorage._lock, 0 when free
    objects,        \* the attributes of every BlobStorage object created
    threads,        \* each thread's position in get_storage and what it holds
    drawn_item,     \* the normalized item handed to the visualizer
    drawing         \* outcome of drawing the item, None before

vars_post == << ocr_lines, input0, pairs, out1, out2 >>
vars_llm == << items, original, llm, reconciled >>
vars_json == << response, decoded >>
vars_validate == << field_in, rules_in, validation >>
vars_pipeline == << blobs, job_status, status_updates, field_rows, stage_calls, last_call >>
vars_tasks == << artifacts, jobs, now, runs, doc_status, api_calls, last_task >>
vars_storage == << instance, class_lock, objects, threads >>
vars_visual == << drawn_item, drawing >>
vars == << vars_post, vars_llm, vars_json, vars_validate, vars_pipeline,
           vars_tasks, vars_storage, vars_visual >>

\* the field extractor is not running
IdleLLM ==
    /\ items = <<>>
    /\ original = None
    /\ llm = None
    /\ reconciled = None

\* no response is being decoded
IdleJson ==
    /\ response = <<>>
    /\ decoded = None

\* no field is being validated
IdleValidate ==
    /\ field_in = [value |-> None]
    /\ rules_in = [type |-> "string"]
    /\ validation = None

\* no pipeline function was called
NoCall ==
    [fn |-> "none", err |-> NoError, blobs_before |-> {}, updates_before |-> 0,
     status_before |-> None]

IdlePipeline ==
    /\ blobs = {}
    /\ job_status = None
    /\ status_updates = 0
    /\ field_rows = FALSE
    /\ stage_calls = 0
    /\ last_call = NoCall

\* no task has run and no request was answered
NoTask ==
    [run |-> 0, fn |-> "none", arg |-> "", err |-> NoError, raised |-> NoError,
     db |-> "up", code |-> 0, jobs_before |-> <<>>]

IdleTasks ==
    /\ artifacts = {}
    /\ jobs = <<>>
    /\ now = 0
    /\ runs = <<>>
    /\ doc_status = None
    /\ api_calls = 0
    /\ last_task = NoTask

\* no thread has asked for the storage object
IdleStorage ==
    /\ instance = 0
    /\ class_lock = 0
    /\ objects = <<>>
    /\ threads = <<>>

\* nothing is being drawn
IdleVisual ==
    /\ drawn_item = None
    /\ drawing = None

\* the post-processing functions are not running
IdlePost ==
    /\ ocr_lines = <<>>
    /\ input0 = <<>>
    /\ pairs = None
    /\ out1 = None
    /\ out2 = None

\* variant: ocr_lines.sort(key=...) sorts the caller's list in place
list_after_sorted_InPlace(lines, sorted) == sorted

\* What the caller's list holds after sorted(ocr_lines, key=...): sorted()
\* builds a new list and leaves its argument as it was
list_after_sorted(lines, sorted) == lines

InitPost ==
    /\ ocr_lines \in TokenLists
    /\ input0 = ocr_lines
    /\ pairs = None
    /\ out1 = None
    /\ out2 = None
    /\ IdleLLM
    /\ IdleJson
    /\ IdleValidate
    /\ IdlePipeline
    /\ IdleTasks
    /\ IdleStorage
    /\ IdleVisual

\* a call of extract_label_value_pairs(ocr_lines)
ExtractPairs ==
    /\ pairs = None
    /\ pairs' = << extract_label_value_pairs(ocr_lines) >>
    /\ ocr_lines' = list_after_sorted(ocr_lines, sorted_lines(ocr_lines))
    /\ UNCHANGED << input0, out1, out2, vars_llm, vars_json, vars_validate, vars_pipeline,
                 vars_tasks, vars_storage, vars_visual >>

\* a first call of normalize_ocr_lines(ocr_lines)
NormalizeFirst ==
    /\ out1 = None
    /\ out1' = << normalize_ocr_lines(ocr_lines) >>
    /\ ocr_lines' = list_after_sorted(ocr_lines, sorted_lines(ocr_lines))
    /\ UNCHANGED << input0, pairs, out2, vars_llm, vars_json, vars_validate, vars_pipeline,
                 vars_tasks, vars_storage, vars_visual >>

\* a second call on the same list
NormalizeAgain ==
    /\ out1 # None
    /\ out2 = None
    /\ out2' = << normalize_ocr_lines(ocr_lines) >>
    /\ ocr_lines' = list_after_sorted(ocr_lines, sorted_lines(ocr_lines))
    /\ UNCHANGED << input0, pairs, out1, vars_llm, vars_json, vars_validate, vars_pipeline,
                 vars_tasks, vars_storage, vars_visual >>

NextPost == ExtractPairs \/ NormalizeFirst \/ NormalizeAgain

SpecPost == InitPost /\ [][NextPost]_vars

\* ---------------------------------------------------------------------
\* Calls of extract_fields_with_llm
\* ---------------------------------------------------------------------
Fn == << "F", "n" >>
nm == << "n", "m" >>
ok == << "o", "k" >>
zz == << "z" >>

\* a DocumentTypeConfig
DocConfig ==
    [name |-> << "c", "r" >>,
     expected_fields |-> << nm, ok >>,
     field_mappings |-> << [k |-> Fn, v |-> nm] >>,
     validation_rules |-> << [k |-> nm, v |-> [type |-> "string"]],
                             [k |-> ok, v |-> [type |-> "boolean"]] >>]

LV(label, value, page, box, conf) ==
    [type |-> "label_value", label |-> label, value |-> value, page |-> page,
     confidence |-> conf, bounding_box |-> box]

TL(text, page, box, conf) ==
    [type |-> "text_line", text |-> text, page |-> page,
     confidence |-> conf, bounding_box |-> box]

\* normalized items as normalize_ocr_lines builds them
ItemPool ==
    { LV(Fn, << "q", "q" >>, 1, NearBox, << 90 >>),
      LV(<< "x" >>, << "a", "B" >>, 2, FarBox, None),
      LV(<< "y" >>, << "b" >>, 1, BelowBox, << 70 >>),
      TL(<< "b" >>, 1, NearBox, << 80 >>) }

OriginalPool ==
    { Tok("line", << "a", "B" >>, 2, FarBox, << 60 >>),
      Tok("line", << "F", "n", " ", "x" >>, 1, LeftBox, None),
      Tok("word", << "b" >>, 1, NearBox, << 85 >>) }

\* keys of the response: a canonical name with a string rule, a
\* source-language label mapped to it, a name without mapping or rule, and
\* a canonical name with a boolean rule
FieldNames == { nm, Fn, zz, ok }
FieldValues == { None, << <<>> >>, << << "b" >> >>, << << "z" >> >> }

\* the "source" member the response gives next to a value: None when the
\* member is missing, else << tag >>
FieldSource(v) ==
    IF v = << << "b" >> >> THEN << "text_line" >>
    ELSE IF v = << << "z" >> >> THEN << "table" >>
    ELSE None

\* The members of extracted_fields the response may hold: a JSON object with
\* or without "value" and "source", or a bare value (kind "raw")
FieldData ==
    { [kind |-> "dict", has_value |-> TRUE, value |-> v, source |-> FieldSource(v)] :
        v \in FieldValues }
    \cup { [kind |-> "dict", has_value |-> FALSE, value |-> None,
            source |-> << "label_value" >>],
           [kind |-> "raw", has_value |-> FALSE, value |-> << << "b" >> >>,
            source |-> None] }

\* JSON objects with at most n members, keys distinct
RECURSIVE DictsUpTo(_)
DictsUpTo(n) ==
    IF n = 0 THEN { <<>> }
    ELSE LET shorter == DictsUpTo(n - 1)
         IN  shorter \cup
             { Append(d, [k |-> name, v |-> data]) :
                 d \in {e \in shorter : Len(e) = n - 1}, name \in FieldNames,
                 data \in FieldData }

DistinctKeys(d) == \A a \in 1..Len(d) : \A b \in 1..Len(d) : d[a].k = d[b].k => a = b

LlmOutcomes ==
    { [kind |-> "generate_raises"], [kind |-> "undecodable"] }
    \cup { [kind |-> "json", extracted_fields |-> ef, missing_fields |-> mf] :
             ef \in { None } \cup { << d >> : d \in {e \in DictsUpTo(MaxFields) : DistinctKeys(e)} },
             mf \in { None, << << ok >> >> } }

InitLLM ==
    /\ items \in SeqsUpTo(ItemPool, MaxItems)
    /\ original \in { None } \cup { << o >> : o \in SeqsUpTo(OriginalPool, MaxOriginal) }
    /\ llm = None
    /\ reconciled = None
    /\ IdlePost
    /\ IdleJson
    /\ IdleValidate
    /\ IdlePipeline
    /\ IdleTasks
    /\ IdleStorage
    /\ IdleVisual

\* a call of extract_fields_with_llm(items, DocConfig, llm_client, original);
\* the model's reply is consulted only if generate is called
Reconcile ==
    /\ reconciled = None
    /\ \E reply \in LlmOutcomes :
         LET r == extract_fields_with_llm(items, DocConfig, reply, original)
         IN  /\ reconciled' = << r >>
             /\ llm' = IF r.calls = 0 THEN None ELSE << reply >>
    /\ UNCHANGED << items, original, vars_post, vars_json, vars_validate, vars_pipeline,
                 vars_tasks, vars_storage, vars_visual >>

NextLLM == Reconcile

SpecLLM == InitLLM /\ [][NextLLM]_vars

\* ---------------------------------------------------------------------
\* Properties of the pair extractor and the normalizer
\* ---------------------------------------------------------------------
PairsDone == pairs # None
PairsOut == pairs[1]
Emitted(trace) == SelectSeq(trace, LAMBDA t : t.emitted)
Geometric(t) == t.how \in {"aligned", "window"}
BufferOf(page) == page_buffer(sorted_lines(input0), page)
ItemsOfType(list, ty) == SelectSeq(list, LAMBDA it : it.type = ty)

\* C2: every item of normalize_ocr_lines' output, label_value as well as
\* text_line, has a bounding box that is not None.
C2_EveryItemHasBox ==
    out1 # None =>
        \A k \in 1..Len(out1[1].items) : out1[1].items[k].bounding_box # None

ColonUsed(trace, page) ==
    {trace[k].li : k \in {m \in 1..Len(trace) :
                            trace[m].how = "colon" /\ trace[m].page = page}}

\* C3: on every page the colon pairs are emitted before any decision of the
\* geometric pass, no line consumed by the colon pass is the label or the
\* value of a geometric pair, and a page that holds only one line "A: B"
\* yields exactly the pair (A, B).
C3_ColonBeforeGeometric ==
    PairsDone =>
        LET tr == PairsOut.trace
        IN  /\ \A k \in 1..Len(tr) : \A m \in 1..Len(tr) :
                 (k < m /\ tr[k].page = tr[m].page /\ tr[m].how = "colon")
                     => tr[k].how = "colon"
            /\ \A k \in 1..Len(tr) :
                 Geometric(tr[k]) =>
                     /\ tr[k].li \notin ColonUsed(tr, tr[k].page)
                     /\ tr[k].vi \notin ColonUsed(tr, tr[k].page)
            /\ \A page \in {input0[k].page : k \in 1..Len(input0)} :
                 LET lines == BufferOf(page)
                     mine == SelectSeq(tr, LAMBDA t : t.page = page)
                     res == SelectSeq(PairsOut.results, LAMBDA p : p.page = page)
                 IN  (Len(lines) = 1 /\ ColonSplits(lines[1])) =>
                         /\ Len(mine) = 1 /\ mine[1].how = "colon"
                         /\ Len(res) = 1
                         /\ res[1].label = SplitColon(strip(lines[1].text))[1]
                         /\ res[1].value = SplitColon(strip(lines[1].text))[2]

\* a call in which a colon line lay aligned to the right of a label line that
\* the geometric pass paired with another line
C3_Witness ==
    /\ PairsDone
    /\ \E k \in 1..Len(PairsOut.trace) : \E m \in 1..Len(PairsOut.trace) :
         LET c == PairsOut.trace[k]
             g == PairsOut.trace[m]
         IN  /\ c.how = "colon" /\ Geometric(g) /\ g.emitted /\ c.page = g.page
             /\ are_horizontally_aligned(g.label_line.bounding_box,
                                         c.label_line.bounding_box)
             /\ FracLt(get_center_x(g.label_line.bounding_box),
                       get_center_x(c.label_line.bounding_box))

\* C4: every emitted pair has a label and a value that are non-empty after
\* trimming.
C4_PairsNonEmpty ==
    PairsDone =>
        \A k \in 1..Len(PairsOut.results) :
            /\ strip(PairsOut.results[k].label) # <<>>
            /\ strip(PairsOut.results[k].value) # <<>>

\* a confidence with unknown (None or absent key) counted as 1.0
KnownOrOne(tok) == IF GetConf(tok) = None THEN 100 ELSE GetConf(tok)[1]

\* C5: every pair attempt of the geometric pass completes, and its pair has
\* the minimum of the two lines' confidences, unknown counting as 1.0.
C5_MinWithUnknownAsOne ==
    PairsDone =>
        /\ PairsOut.err = NoError
        /\ LET em == Emitted(PairsOut.trace)
           IN  \A k \in 1..Len(em) :
                 Geometric(em[k]) =>
                     LET a == KnownOrOne(em[k].label_line)
                         b == KnownOrOne(em[k].value_line)
                     IN  PairsOut.results[k].confidence = << IF a <= b THEN a ELSE b >>

\* the unused lines aligned with, and right of, the label line of a decision
AlignedCandidates(t) ==
    LET lines == BufferOf(t.page)
    IN  {j \in 1..Len(lines) :
            /\ j \notin t.used_before
            /\ are_horizontally_aligned(lines[t.li].bounding_box, lines[j].bounding_box)
            /\ FracLt(get_center_x(lines[t.li].bounding_box),
                      get_center_x(lines[j].bounding_box))}

\* C6: whenever the geometric pass examines a label line for which aligned
\* unused lines further right exist, it chooses one of them with the
\* smallest centre x, and the decision is not one of the forward window.
C6_LeftmostAligned ==
    PairsDone =>
        \A k \in 1..Len(PairsOut.trace) :
            LET t == PairsOut.trace[k]
                lines == BufferOf(t.page)
            IN  (t.how # "colon" /\ AlignedCandidates(t) # {}) =>
                    /\ t.how = "aligned"
                    /\ t.vi \in AlignedCandidates(t)
                    /\ \A j \in AlignedCandidates(t) :
                         ~FracLt(get_center_x(lines[j].bounding_box),
                                 get_center_x(lines[t.vi].bounding_box))

\* a label line with two aligned candidates at different x, the farther one
\* met first
C6_Witness ==
    /\ PairsDone
    /\ \E k \in 1..Len(PairsOut.trace) :
         LET t == PairsOut.trace[k]
             lines == BufferOf(t.page)
         IN  /\ t.how = "aligned" /\ t.emitted
             /\ \E j \in AlignedCandidates(t) :
                  /\ j < t.vi
                  /\ FracLt(get_center_x(lines[t.vi].bounding_box),
                            get_center_x(lines[j].bounding_box))

InInput(tok) == \E k \in 1..Len(input0) : input0[k] = tok

\* C7: the label line and the value line of every emitted pair are line
\* tokens of the input that lie on the pair's page.
C7_SamePage ==
    PairsDone =>
        LET em == Emitted(PairsOut.trace)
        IN  /\ Len(em) = Len(PairsOut.results)
            /\ \A k \in 1..Len(em) :
                 /\ em[k].page = PairsOut.results[k].page
                 /\ em[k].label_line.page = PairsOut.results[k].page
                 /\ em[k].value_line.page = PairsOut.results[k].page
                 /\ IsLine(em[k].label_line) /\ IsLine(em[k].value_line)
                 /\ InInput(em[k].label_line) /\ InInput(em[k].value_line)

\* a geometric pair was emitted from a list with lines on two pages and a word
C7_Witness ==
    /\ PairsDone
    /\ \E k \in 1..Len(PairsOut.trace) :
         Geometric(PairsOut.trace[k]) /\ PairsOut.trace[k].emitted
    /\ \E a \in 1..Len(input0) : \E b \in 1..Len(input0) :
         input0[a].page # input0[b].page /\ IsLine(input0[a]) /\ IsLine(input0[b])

KeptLines == SelectSeq(input0, LAMBDA t : IsLine(t) /\ t.bounding_box # None)

\* C8: the text_line items of the output are, in input order, one per line
\* token that has a bounding box.
C8_OneTextLinePerLine ==
    out1 # None =>
        LET tl == ItemsOfType(out1[1].items, "text_line")
        IN  /\ Len(tl) = Len(KeptLines)
            /\ \A k \in 1..Len(tl) :
                 /\ tl[k].text = strip(KeptLines[k].text)
                 /\ tl[k].page = KeptLines[k].page
                 /\ tl[k].bounding_box = KeptLines[k].bounding_box

Reconciled == reconciled # None
Outcome == reconciled[1]

\* C1: on an empty item list the call returns no extracted fields, no
\* validation results and all expected fields as missing, and generate is
\* not called.
C1_EmptyInputShortCircuit ==
    (Reconciled /\ items = <<>>) =>
        /\ Outcome.err = NoError
        /\ Outcome.extracted_fields = <<>>
        /\ Outcome.validation_results = <<>>
        /\ Outcome.missing_fields = DocConfig.expected_fields
        /\ Outcome.calls = 0
        /\ llm = None

\* the call was made with an empty item list and a non-empty original list
C1_Witness ==
    /\ Reconciled
    /\ items = <<>>
    /\ original # None /\ original[1] # <<>>

\* the item a grounding decision copied from
GroundingItem(g) == IF g.via = "pair" THEN items[g.at] ELSE original[1][g.at]

\* its rendered value text
RenderedValue(it) == IF it.type = "label_value" THEN it.value ELSE it.text
RenderedLabel(it) == IF it.type = "label_value" THEN it.label ELSE it.text

ExactMatch(g) == RenderedValue(GroundingItem(g)) = g.asked[1]

LooseMatch(g) ==
    LET it == GroundingItem(g)
    IN  /\ it.type = (IF g.via = "pair" THEN "label_value" ELSE "line")
        /\ \/ Contains(lower(RenderedValue(it)), lower(g.asked[1]))
           \/ \E n \in 1..Len(DocConfig.field_mappings) :
                /\ DocConfig.field_mappings[n].v = g.field
                /\ Contains(lower(RenderedLabel(it)),
                            lower(DocConfig.field_mappings[n].k))

MappedName(name) ==
    IF DictHas(DocConfig.field_mappings, name)
    THEN DictGet(DocConfig.field_mappings, name) ELSE name

\* every field that carries an item's bounding box, page and confidence was
\* grounded by a decision that passes Match
GroundedOnlyBy(Match(_)) ==
    (Reconciled /\ Outcome.err = NoError) =>
        \A e \in 1..Len(Outcome.extracted_fields) :
            LET entry == Outcome.extracted_fields[e]
            IN  "bounding_box" \in DOMAIN entry.v =>
                    \E n \in 1..Len(Outcome.grounding) :
                        LET g == Outcome.grounding[n]
                        IN  /\ g.via # "none"
                            /\ g.asked # None
                            /\ MappedName(g.field) = entry.k
                            /\ entry.v.bounding_box = GroundingItem(g).bounding_box
                            /\ entry.v.page = << GroundingItem(g).page >>
                            /\ entry.v.confidence = GroundingItem(g).confidence
                            /\ Match(g)

WriterOf(name) ==
    LET ns == { n \in 1..Len(Outcome.grounding) : MappedName(Outcome.grounding[n].field) = name }
    IN  Outcome.grounding[CHOOSE n \in ns : \A m \in ns : m <= n]

\* C11: a returned field whose re-grounding succeeded carries exactly the
\* matched item's bounding_box, page and confidence, an unknown confidence
\* included, and every returned field has bounding_box and page together or
\* not at all.
C11_GroundedFieldCopiesItem ==
    (Reconciled /\ Outcome.err = NoError) =>
        \A e \in 1..Len(Outcome.extracted_fields) :
            LET entry == Outcome.extracted_fields[e]
                g == WriterOf(entry.k)
            IN  /\ ("bounding_box" \in DOMAIN entry.v) <=> ("page" \in DOMAIN entry.v)
                /\ g.via # "none" =>
                    /\ "bounding_box" \in DOMAIN entry.v
                    /\ entry.v.bounding_box = GroundingItem(g).bounding_box
                    /\ entry.v.page = << GroundingItem(g).page >>
                    /\ entry.v.confidence = GroundingItem(g).confidence

\* a returned field was grounded on an item whose confidence is unknown
C11_Witness ==
    /\ Reconciled /\ Outcome.err = NoError
    /\ \E e \in 1..Len(Outcome.extracted_fields) :
         LET g == WriterOf(Outcome.extracted_fields[e].k)
         IN  /\ g.via # "none"
             /\ GroundingItem(g).confidence = None
             /\ Outcome.extracted_fields[e].v.confidence = None

\* the item contains the asked value, or a source-language label mapped to
\* the field, after lower-casing
Grounds(it, g) ==
    \/ Contains(lower(RenderedValue(it)), lower(g.asked[1]))
    \/ \E n \in 1..Len(DocConfig.field_mappings) :
         /\ DocConfig.field_mappings[n].v = g.field
         /\ Contains(lower(RenderedLabel(it)), lower(DocConfig.field_mappings[n].k))

\* the response field's value is null, or no item of either list matches it
NothingMatches(g) ==
    \/ g.asked = None
    \/ /\ \A n \in 1..Len(items) :
            items[n].type = "label_value" => ~Grounds(items[n], g)
       /\ original # None =>
            \A n \in 1..Len(original[1]) :
                original[1][n].type = "line" => ~Grounds(original[1][n], g)

IsUnitNumber(conf) == conf # None /\ conf[1] \in 0..100

\* C13 as stated: every returned field has a confidence that is a number
\* within [0, 1].
C13_ConfidenceIsUnitNumber ==
    (Reconciled /\ Outcome.err = NoError) =>
        \A e \in 1..Len(Outcome.extracted_fields) :
            IsUnitNumber(Outcome.extracted_fields[e].v.confidence)

\* C13 as amended: every returned field has a confidence that is a number
\* within [0, 1] or None, and it is None only for a field that was grounded
\* on an item whose confidence is unknown.
C13_ConfidenceUnitNumberOrUnknown ==
    (Reconciled /\ Outcome.err = NoError) =>
        \A e \in 1..Len(Outcome.extracted_fields) :
            LET entry == Outcome.extracted_fields[e]
                g == WriterOf(entry.k)
            IN  \/ IsUnitNumber(entry.v.confidence)
                \/ /\ entry.v.confidence = None
                   /\ g.via # "none"
                   /\ GroundingItem(g).confidence = None

\* one returned field has an unknown confidence and another a number
C13_Witness ==
    /\ Reconciled /\ Outcome.err = NoError
    /\ \E a, b \in 1..Len(Outcome.extracted_fields) :
         /\ Outcome.extracted_fields[a].v.confidence = None
         /\ IsUnitNumber(Outcome.extracted_fields[b].v.confidence)

\* the source member of the response field whose data the returned field holds
StatedSource(name) ==
    LET ns == { n \in 1..Len(llm[1].extracted_fields[1]) :
                  MappedName(llm[1].extracted_fields[1][n].k) = name }
    IN  llm[1].extracted_fields[1][CHOOSE n \in ns : \A m \in ns : m <= n].v.source

\* C14: every returned field carries a source tag that is label_value or
\* text_line: the response's own tag when that is one of the two, text_line
\* when the response gives none or another one.
C14_EveryFieldHasSourceTag ==
    (Reconciled /\ Outcome.err = NoError) =>
        \A e \in 1..Len(Outcome.extracted_fields) :
            LET entry == Outcome.extracted_fields[e]
                stated == StatedSource(entry.k)
            IN  /\ "source" \in DOMAIN entry.v
                /\ entry.v.source \in {"label_value", "text_line"}
                /\ entry.v.source = (IF stated = << "label_value" >>
                                     THEN "label_value" ELSE "text_line")

\* ---------------------------------------------------------------------
\* extract_json_from_response and the JSON decoder it calls
\* ---------------------------------------------------------------------
MaxPieces == 3

\* The backtick, which a string of this module cannot hold, is written "^";
\* no response holds a circumflex.
fence == << "^", "^", "^" >>
slashes == << "/", "/" >>
newline == << "\n" >>

\* Decoded JSON values: a string [t |-> "str", s], an integer [t |-> "num", n]
\* or an object (a dict) [t |-> "obj", m].  A parsing step gives
\* [ok |-> FALSE], or [ok |-> TRUE, val, next] with the value and the
\* position after it.

RECURSIVE SkipWs(_, _)
SkipWs(s, i) == IF i <= Len(s) /\ IsSpace(s[i]) THEN SkipWs(s, i + 1) ELSE i

\* a string starts at the double quote s[i]: it ends at the next double
\* quote and may hold no control character (the responses hold no backslash)
ParseString(s, i) ==
    LET j == Find(s, << "\"" >>, i + 1)
    IN  IF j = 0 THEN [ok |-> FALSE]
        ELSE IF \E n \in (i + 1)..(j - 1) : s[n] = "\n" THEN [ok |-> FALSE]
        ELSE [ok |-> TRUE, val |-> [t |-> "str", s |-> SubSeq(s, i + 1, j - 1)], next |-> j + 1]

RECURSIVE DigitsEnd(_, _)
DigitsEnd(s, i) == IF i <= Len(s) /\ IsDigit(s[i]) THEN DigitsEnd(s, i + 1) ELSE i

\* an integer starts at the digit s[i]: "0", or a run of digits that does
\* not start with 0 (the responses hold no sign, fraction or exponent)
ParseNumber(s, i) ==
    IF s[i] = "0" THEN [ok |-> TRUE, val |-> [t |-> "num", n |-> 0], next |-> i + 1]
    ELSE [ok |-> TRUE,
          val |-> [t |-> "num", n |-> IntOf(SubSeq(s, i, DigitsEnd(s, i) - 1))],
          next |-> DigitsEnd(s, i)]

RECURSIVE ParseValue(_, _)
RECURSIVE ParseMembers(_, _, _)

\* the members of an object from position j on: key : value , ... }
ParseMembers(s, j, acc) ==
    IF j > Len(s) \/ s[j] # "\"" THEN [ok |-> FALSE]
    ELSE LET key == ParseString(s, j)
         IN  IF ~key.ok THEN [ok |-> FALSE]
             ELSE LET c == SkipWs(s, key.next)
                  IN  IF c > Len(s) \/ s[c] # ":" THEN [ok |-> FALSE]
                      ELSE LET v == ParseValue(s, SkipWs(s, c + 1))
                           IN  IF ~v.ok THEN [ok |-> FALSE]
                               ELSE LET m == SkipWs(s, v.next)
                                        acc2 == DictSet(acc, key.val.s, v.val)
                                    IN  IF m > Len(s) THEN [ok |-> FALSE]
                                        ELSE IF s[m] = "}"
                                        THEN [ok |-> TRUE, val |-> [t |-> "obj", m |-> acc2],
                                              next |-> m + 1]
                                        ELSE IF s[m] = ","
                                        THEN ParseMembers(s, SkipWs(s, m + 1), acc2)
                                        ELSE [ok |-> FALSE]

\* an object starts at s[i] = "{"
ParseObject(s, i) ==
    LET j == SkipWs(s, i + 1)
    IN  IF j > Len(s) THEN [ok |-> FALSE]
        ELSE IF s[j] = "}" THEN [ok |-> TRUE, val |-> [t |-> "obj", m |-> <<>>], next |-> j + 1]
        ELSE ParseMembers(s, j, <<>>)

ParseValue(s, i) ==
    IF i > Len(s) THEN [ok |-> FALSE]
    ELSE IF s[i] = "\"" THEN ParseString(s, i)
    ELSE IF s[i] = "{" THEN ParseObject(s, i)
    ELSE IF IsDigit(s[i]) THEN ParseNumber(s, i)
    ELSE [ok |-> FALSE]

\* json.loads(s): one value between optional whitespace, nothing after it
json_loads(s) ==
    LET v == ParseValue(s, SkipWs(s, 1))
    IN  IF ~v.ok THEN [err |-> "JSONDecodeError"]
        ELSE IF SkipWs(s, v.next) # Len(s) + 1 THEN [err |-> "JSONDecodeError"]
        ELSE [err |-> NoError, value |-> v.val]

\* lines 142-151: the text between the first code fence and the next one
fenced_body(resp) ==
    LET start == Find(resp, fence, 1)
        nl == Find(resp, newline, start)
        \* response.find(newline, start) + 1 is 0 when no newline follows
        first == IF nl = 0 THEN 1 ELSE nl + 1
        end == Find(resp, fence, first)
    IN  IF start = 0 THEN resp
        ELSE IF end = 0 THEN resp
        ELSE strip(SubSeq(resp, first, end - 1))

\* lines 154-159: every line is cut at its first "//"
RECURSIVE strip_comments(_)
strip_comments(s) ==
    LET nl == Find(s, newline, 1)
        line == IF nl = 0 THEN s ELSE SubSeq(s, 1, nl - 1)
        c == Find(line, slashes, 1)
        kept == IF c = 0 THEN line ELSE SubSeq(line, 1, c - 1)
    IN  IF nl = 0 THEN kept
        ELSE kept \o newline \o strip_comments(SubSeq(s, nl + 1, Len(s)))

extract_json_from_response(resp) ==
    LET r == json_loads(strip_comments(fenced_body(resp)))
    IN  IF r.err = NoError THEN r ELSE [err |-> "ValueError"]

\* Pieces of a response: prose, a comment, a code fence, a code fence with
\* a language tag and a newline, a newline, an object {"a":1} and a nested
\* object {"a": {"x":"a"}}
Pieces ==
    { << "a", " " >>,
      << "/", "/", "a" >>,
      fence,
      fence \o << "a", "\n" >>,
      newline,
      << "{", "\"", "a", "\"", ":", "1", "}" >>,
      << "{", "\"", "a", "\"", ":", "\"", "/", "/", "\"", "}" >>,
      << "{", "\"", "a", "\"", ":", " ", "{", "\"", "x", "\"", ":", "\"", "a", "\"", "}", "}" >> }

RECURSIVE Flatten(_)
Flatten(parts) == IF parts = <<>> THEN <<>> ELSE Head(parts) \o Flatten(Tail(parts))

Responses == { Flatten(parts) : parts \in SeqsUpTo(Pieces, MaxPieces) }

InitJson ==
    /\ response \in Responses
    /\ decoded = None
    /\ IdlePost
    /\ IdleLLM
    /\ IdleValidate
    /\ IdlePipeline
    /\ IdleTasks
    /\ IdleStorage
    /\ IdleVisual

\* a call of extract_json_from_response(response)
Decode ==
    /\ decoded = None
    /\ decoded' = << extract_json_from_response(response) >>
    /\ UNCHANGED << response, vars_post, vars_llm, vars_validate, vars_pipeline,
                 vars_tasks, vars_storage, vars_visual >>

SpecJson == InitJson /\ [][Decode]_vars

\* text without a brace
NoBrace(s) == \A n \in 1..Len(s) : s[n] \notin {"{", "}"}

\* C15: a response that is one JSON object with brace-free prose before
\* and after it, code fences or none, decodes to that object.
C15_DecodesWrappedObject ==
    decoded # None =>
        \A i \in 1..Len(response) : \A j \in i..Len(response) :
            LET body == SubSeq(response, i, j)
                parsed == json_loads(body)
            IN  ( /\ NoBrace(SubSeq(response, 1, i - 1))
                  /\ NoBrace(SubSeq(response, j + 1, Len(response)))
                  /\ response[i] = "{"
                  /\ parsed.err = NoError )
                => decoded[1] = parsed

\* C26: a response that is valid JSON as it stands decodes to its direct
\* parse, with every value as it is in the response.
C26_ValidJsonDecodesToItself ==
    (decoded # None /\ json_loads(response).err = NoError) =>
        decoded[1] = json_loads(response)

\* the data the loop over the response's fields built for its n-th field
OwnData(n) ==
    ground_field(llm[1].extracted_fields[1][n].k, llm[1].extracted_fields[1][n].v,
                 items, original, DocConfig).data

\* C16: every field of the response is in the returned extracted_fields
\* with its own data, under the name field_mappings gives its key, or
\* under its own key when field_mappings does not hold it.
C16_MappingKeepsEveryField ==
    (Reconciled /\ Outcome.err = NoError /\ llm # None /\ llm[1].extracted_fields # None) =>
        \A n \in 1..Len(llm[1].extracted_fields[1]) :
            LET name == MappedName(llm[1].extracted_fields[1][n].k)
            IN  /\ DictHas(Outcome.extracted_fields, name)
                /\ DictGet(Outcome.extracted_fields, name) = OwnData(n)

\* ---------------------------------------------------------------------
\* Calls of validate_field
\* ---------------------------------------------------------------------
MaxChars == 3

ValueChars == { "1", "5", ".", ",", "-" }

\* field entries: a string value, a null value, no "value" key
FieldEntries ==
    { [value |-> << v >>, confidence |-> default_confidence] :
        v \in SeqsUpTo(ValueChars, MaxChars) \cup { << "t", "r", "u", "e" >>, << "b" >> } }
    \cup { [value |-> None, confidence |-> default_confidence],
           [confidence |-> default_confidence] }

RulePool ==
    { [type |-> "string"], [type |-> "boolean"], [type |-> "number"],
      [type |-> "number", min |-> 0],
      [type |-> "number", max |-> 10],
      [type |-> "number", min |-> 0, max |-> 10] }

InitValidate ==
    /\ field_in \in FieldEntries
    /\ rules_in \in RulePool
    /\ validation = None
    /\ IdlePost
    /\ IdleLLM
    /\ IdleJson
    /\ IdlePipeline
    /\ IdleTasks
    /\ IdleStorage
    /\ IdleVisual

\* a call of validate_field(field_in, rules_in)
Validate ==
    /\ validation = None
    /\ validation' = << validate_field(field_in, rules_in) >>
    /\ UNCHANGED << field_in, rules_in, vars_post, vars_llm, vars_json, vars_pipeline,
                 vars_tasks, vars_storage, vars_visual >>

SpecValidate == InitValidate /\ [][Validate]_vars

HasError(result, message) == \E n \in 1..Len(result.errors) : result.errors[n] = message

\* the number a string value stands for in German locale: every "." removed,
\* "," turned into ".", parsed once
GermanParsed(value) == float_of(german_number(value[1]))

\* C17: for a number rule and a string value that parses in German locale,
\* the result has the `at least` message exactly when the parsed number is
\* below min, the `at most` message exactly when it is above max, and is
\* invalid exactly when it has one of the two.
C17_RangeOfParsedNumber ==
    ( /\ validation # None
      /\ rules_in.type = "number"
      /\ "value" \in DOMAIN field_in
      /\ field_in.value # None
      /\ GermanParsed(field_in.value).ok ) =>
        LET parsed == GermanParsed(field_in.value)
            below == "min" \in DOMAIN rules_in /\ parsed.n < rules_in.min * parsed.d
            above == "max" \in DOMAIN rules_in /\ parsed.n > rules_in.max * parsed.d
        IN  /\ HasError(validation[1], "Value must be at least") <=> below
            /\ HasError(validation[1], "Value must be at most") <=> above
            /\ validation[1].is_valid <=> ~(below \/ above)

Keys(d) == { d[n].k : n \in 1..Len(d) }

Raised(outcome) ==
    /\ outcome.err # NoError
    /\ "extracted_fields" \notin DOMAIN outcome
    /\ "validation_results" \notin DOMAIN outcome

MaxCalls == 2

\* the Stage enum
RAW == "credit-docs-raw"
OCR_RAW == "credit-docs-ocr-raw"
OCR_CLEAN == "credit-docs-ocr-clean"
LLM == "credit-docs-llm"
ANNOTATED == "credit-docs-annotated"
Stages == { RAW, OCR_RAW, OCR_CLEAN, LLM, ANNOTATED }

FileNotFoundError == "FileNotFoundError"

\* variant: a download gives data for every stage
download_blob_AlwaysData(store, stage) == TRUE

\* storage_client.download_blob(document_id, stage, ext) is not None
download_blob(store, stage) == stage \in store

\* read_ocr_results_from_bucket(document_id) is not None: the blob exists,
\* downloads and decodes as JSON
read_ocr_results_from_bucket(store, decodes) ==
    /\ OCR_RAW \in store
    /\ download_blob(store, OCR_RAW)
    /\ decodes

\* the job's status after _update_extraction_job_status(document_id, status):
\* nothing changes without a database connection or without a job
updated_status(old, status, db_up) ==
    IF db_up /\ old # None THEN << status >> ELSE old

\* what a call found
Found(fn, err) ==
    [fn |-> fn, err |-> err, blobs_before |-> blobs,
     updates_before |-> status_updates, status_before |-> job_status]

InitPipeline ==
    /\ blobs \in SUBSET Stages
    /\ job_status \in { None, << "Extraktion ausstehend" >> }
    /\ status_updates = 0
    /\ field_rows \in BOOLEAN
    /\ stage_calls = 0
    /\ last_call = NoCall
    /\ IdlePost
    /\ IdleLLM
    /\ IdleJson
    /\ IdleValidate
    /\ IdleTasks
    /\ IdleStorage
    /\ IdleVisual

\* trigger_extraction(document_id)
TriggerExtraction ==
    /\ stage_calls < MaxCalls
    /\ \E db_up \in BOOLEAN :
         /\ blobs' = blobs \cup { RAW }
         /\ job_status' = IF db_up THEN << "Extraktion ausstehend" >> ELSE job_status
         /\ last_call' = Found("trigger_extraction", NoError)
    /\ stage_calls' = stage_calls + 1
    /\ UNCHANGED << status_updates, field_rows, vars_post, vars_llm, vars_json, vars_validate,
                 vars_tasks, vars_storage, vars_visual >>

\* perform_ocr(document_id)
PerformOcr ==
    /\ stage_calls < MaxCalls
    /\ \E azure_ok, db_up \in BOOLEAN :
         LET err == IF ~download_blob(blobs, RAW) THEN FileNotFoundError
                    ELSE IF ~azure_ok THEN "OcrError"
                    ELSE NoError
         IN  /\ last_call' = Found("perform_ocr", err)
             /\ IF err = NoError
                THEN /\ blobs' = blobs \cup { OCR_RAW }
                     /\ status_updates' = status_updates + 1
                     /\ job_status' = updated_status(job_status, "OCR abgeschlossen", db_up)
                ELSE UNCHANGED << blobs, status_updates, job_status >>
    /\ stage_calls' = stage_calls + 1
    /\ UNCHANGED << field_rows, vars_post, vars_llm, vars_json, vars_validate,
                 vars_tasks, vars_storage, vars_visual >>

\* postprocess_ocr(document_id)
PostprocessOcr ==
    /\ stage_calls < MaxCalls
    /\ \E decodes, normalize_ok, db_up \in BOOLEAN :
         LET err == IF ~read_ocr_results_from_bucket(blobs, decodes) THEN FileNotFoundError
                    ELSE IF ~normalize_ok THEN TypeError
                    ELSE NoError
         IN  /\ last_call' = Found("postprocess_ocr", err)
             /\ IF err = NoError
                THEN /\ blobs' = blobs \cup { OCR_CLEAN }
                     /\ status_updates' = status_updates + 1
                     /\ job_status' = updated_status(job_status, "Extraktion abgeschlossen", db_up)
                ELSE UNCHANGED << blobs, status_updates, job_status >>
    /\ stage_calls' = stage_calls + 1
    /\ UNCHANGED << field_rows, vars_post, vars_llm, vars_json, vars_validate,
                 vars_tasks, vars_storage, vars_visual >>

\* run_llm_extraction(document_id)
RunLlmExtraction ==
    /\ stage_calls < MaxCalls
    /\ \E llm_ok, has_fields, db_rows, db_up \in BOOLEAN :
         LET err == IF ~download_blob(blobs, OCR_CLEAN) THEN FileNotFoundError
                    ELSE IF ~llm_ok THEN "ExtractionError"
                    ELSE NoError
         IN  /\ last_call' = Found("run_llm_extraction", err)
             /\ IF err = NoError
                THEN /\ field_rows' = (field_rows \/ (has_fields /\ db_rows))
                     /\ blobs' = blobs \cup { LLM }
                     /\ status_updates' = status_updates + 1
                     /\ job_status' = updated_status(job_status, "Fertig", db_up)
                ELSE UNCHANGED << field_rows, blobs, status_updates, job_status >>
    /\ stage_calls' = stage_calls + 1
    /\ UNCHANGED << vars_post, vars_llm, vars_json, vars_validate,
                 vars_tasks, vars_storage, vars_visual >>

\* generate_visualization(document_id)
GenerateVisualization ==
    /\ stage_calls < MaxCalls
    /\ \E png_written, db_up \in BOOLEAN :
         LET err == IF ~download_blob(blobs, RAW) THEN FileNotFoundError
                    ELSE IF ~download_blob(blobs, OCR_CLEAN) THEN FileNotFoundError
                    ELSE IF ~png_written THEN FileNotFoundError
                    ELSE NoError
         IN  /\ last_call' = Found("generate_visualization", err)
             /\ IF err = NoError
                THEN /\ blobs' = blobs \cup { ANNOTATED }
                     /\ status_updates' = status_updates + 1
                     /\ job_status' = updated_status(job_status, "Geprüft", db_up)
                ELSE UNCHANGED << blobs, status_updates, job_status >>
    /\ stage_calls' = stage_calls + 1
    /\ UNCHANGED << field_rows, vars_post, vars_llm, vars_json, vars_validate,
                 vars_tasks, vars_storage, vars_visual >>

NextPipeline ==
    \/ TriggerExtraction
    \/ PerformOcr
    \/ PostprocessOcr
    \/ RunLlmExtraction
    \/ GenerateVisualization

SpecPipeline == InitPipeline /\ [][NextPipeline]_vars

\* an artifact the function reads was missing when it was called
ArtifactMissing(call) ==
    \/ call.fn = "perform_ocr" /\ RAW \notin call.blobs_before
    \/ call.fn = "postprocess_ocr" /\ OCR_RAW \notin call.blobs_before
    \/ call.fn = "run_llm_extraction" /\ OCR_CLEAN \notin call.blobs_before
    \/ call.fn = "generate_visualization"
         /\ (RAW \notin call.blobs_before \/ OCR_CLEAN \notin call.blobs_before)

\* C20: a stage function that is called while an artifact it reads is
\* missing raises FileNotFoundError, and no stage has gained or lost an
\* artifact and no job-status update was made by the call.
C20_MissingArtifactWritesNothing ==
    ArtifactMissing(last_call) =>
        /\ last_call.err = FileNotFoundError
        /\ blobs = last_call.blobs_before
        /\ status_updates = last_call.updates_before
        /\ job_status = last_call.status_before

\* generate_visualization was called with the PDF present and the clean OCR
\* JSON missing, after an earlier call had written an artifact
C20_Witness ==
    /\ last_call.fn = "generate_visualization"
    /\ RAW \in last_call.blobs_before
    /\ OCR_CLEAN \notin last_call.blobs_before
    /\ last_call.err = FileNotFoundError
    /\ last_call.updates_before = 1
    /\ job_status = << "OCR abgeschlossen" >>

\* ---------------------------------------------------------------------
\* The Celery tasks of src/src/tasks/pipeline_tasks.py, the job table they
\* write and the API requests that create jobs, for one document
\* ---------------------------------------------------------------------
MaxRequests == 2

\* the pipeline runs of the document: an earlier and a later one
Runs == { 1, 2 }

\* the chain that run_full_pipeline builds
chain ==
    << "trigger_extraction", "perform_ocr", "postprocess_ocr",
       "run_llm_extraction", "generate_visualization" >>

\* outcomes of opening a database connection and executing a statement:
\* connected and executed, no connection, or the statement raised
DbOutcomes == { "up", "down", "error" }

\* _save_extraction_job(extraction_job): INSERT a row with the status
\* Extraktion ausstehend and no abgeschlossen_am; skipped without a
\* connection, and a failed INSERT is logged only
save_extraction_job(table, db) ==
    IF db = "up"
    THEN Append(table, [status |-> "Extraktion ausstehend", abgeschlossen_am |-> None])
    ELSE table

\* _update_extraction_job_status(document_id, status) at time t: UPDATE the
\* most recent row of the document; skipped without a connection, and a
\* failed UPDATE is logged only
update_extraction_job_status(table, status, db, t) ==
    IF db = "up" /\ table # <<>>
    THEN [table EXCEPT ![Len(table)] =
            [status |-> status,
             abgeschlossen_am |-> IF status \in { "Fertig", "Geprüft", "Fehlerhaft" }
                                  THEN << t >>
                                  ELSE @.abgeschlossen_am]]
    ELSE table

\* variant: an error of the status update leaves the handler
handle_extraction_error_Propagates(table, db, t) ==
    [jobs |-> update_extraction_job_status(table, "Fehlerhaft", db, t),
     raised |-> IF db = "error" THEN "StatusUpdateError" ELSE NoError]

\* handle_extraction_error(document_id, exception, task_name) at time t: the
\* job rows afterwards and what the handler itself raises
handle_extraction_error(table, db, t) ==
    [jobs |-> update_extraction_job_status(table, "Fehlerhaft", db, t),
     raised |-> NoError]

\* what the except block of a task raises: the bare raise re-raises the
\* caught exception, unless the handler raised before it was reached
reraised(err, handled) ==
    IF handled.raised # NoError THEN handled.raised ELSE err

\* the exception a stage function raises, NoError when it returns: a missing
\* or undecodable input artifact, else a failure of what it calls (external)
stage_error(fn, held, decodes, external_ok) ==
    CASE fn = "trigger_extraction" ->
           IF external_ok THEN NoError ELSE "UploadError"
      [] fn = "perform_ocr" ->
           IF ~download_blob(held, RAW) THEN FileNotFoundError
           ELSE IF external_ok THEN NoError ELSE "OcrError"
      [] fn = "postprocess_ocr" ->
           IF ~read_ocr_results_from_bucket(held, decodes) THEN FileNotFoundError
           ELSE IF external_ok THEN NoError ELSE TypeError
      [] fn = "run_llm_extraction" ->
           IF ~download_blob(held, OCR_CLEAN) THEN FileNotFoundError
           ELSE IF external_ok THEN NoError ELSE "ExtractionError"
      [] fn = "generate_visualization" ->
           IF ~download_blob(held, RAW) \/ ~download_blob(held, OCR_CLEAN)
           THEN FileNotFoundError
           ELSE IF external_ok THEN NoError ELSE FileNotFoundError

\* variant: generate_visualization uploads its image to the LLM stage
stage_artifact_ImageToLlm(fn) ==
    CASE fn = "trigger_extraction" -> RAW
      [] fn = "perform_ocr" -> OCR_RAW
      [] fn = "postprocess_ocr" -> OCR_CLEAN
      [] fn = "run_llm_extraction" -> LLM
      [] fn = "generate_visualization" -> LLM

\* the stage a stage function uploads to
stage_artifact(fn) ==
    CASE fn = "trigger_extraction" -> RAW
      [] fn = "perform_ocr" -> OCR_RAW
      [] fn = "postprocess_ocr" -> OCR_CLEAN
      [] fn = "run_llm_extraction" -> LLM
      [] fn = "generate_visualization" -> ANNOTATED

\* the job rows after a stage function returned: trigger_extraction saves a
\* new job, every other stage updates the status of the most recent one
stage_jobs(fn, table, db, t) ==
    CASE fn = "trigger_extraction" -> save_extraction_job(table, db)
      [] fn = "perform_ocr" ->
           update_extraction_job_status(table, "OCR abgeschlossen", db, t)
      [] fn = "postprocess_ocr" ->
           update_extraction_job_status(table, "Extraktion abgeschlossen", db, t)
      [] fn = "run_llm_extraction" ->
           update_extraction_job_status(table, "Fertig", db, t)
      [] fn = "generate_visualization" ->
           update_extraction_job_status(table, "Geprüft", db, t)

\* what a task or request found and how it ended
Task(run, fn, arg, err, raised, db, code) ==
    [run |-> run, fn |-> fn, arg |-> arg, err |-> err, raised |-> raised,
     db |-> db, code |-> code, jobs_before |-> jobs]

\* a run that was not started: no task of the chain has succeeded, no job
NewRun == [pos |-> 0, state |-> "new", job |-> 0]

InitTasks ==
    /\ artifacts = {}
    /\ jobs = <<>>
    /\ now = 1
    /\ runs = [r \in Runs |-> NewRun]
    /\ doc_status = None
    /\ api_calls = 0
    /\ last_task = NoTask
    /\ IdlePost
    /\ IdleLLM
    /\ IdleJson
    /\ IdleValidate
    /\ IdlePipeline
    /\ IdleStorage
    /\ IdleVisual

\* run_full_pipeline(document_id): the chain is handed to the broker
RunFullPipeline(r) ==
    /\ runs[r].state = "new"
    /\ \E broker_ok \in BOOLEAN, db \in DbOutcomes :
         LET err == IF broker_ok THEN NoError ELSE "BrokerError"
             handled == handle_extraction_error(jobs, db, now)
         IN  IF err = NoError
             THEN /\ runs' = [runs EXCEPT ![r].state = "queued"]
                  /\ last_task' = Task(r, "run_full_pipeline", "", NoError, NoError, db, 0)
                  /\ UNCHANGED jobs
             ELSE /\ runs' = [runs EXCEPT ![r].state = "failed"]
                  /\ jobs' = handled.jobs
                  /\ last_task' = Task(r, "run_full_pipeline", "", err,
                                       reraised(err, handled), db, 0)
    /\ UNCHANGED << artifacts, now, doc_status, api_calls, vars_post, vars_llm, vars_json,
                    vars_validate, vars_pipeline, vars_storage, vars_visual >>

\* the worker executes the next task of the chain of run r: a task starts
\* when its predecessor succeeded, and a failed task ends the chain; the
\* tasks read the database clock and do not advance it
StageTask(r) ==
    /\ runs[r].state = "queued"
    /\ \E decodes, external_ok \in BOOLEAN, db \in DbOutcomes :
         LET fn == chain[runs[r].pos + 1]
             err == stage_error(fn, artifacts, decodes, external_ok)
             handled == handle_extraction_error(jobs, db, now)
             written == stage_jobs(fn, jobs, db, now)
         IN  IF err = NoError
             THEN /\ artifacts' = artifacts \cup { stage_artifact(fn) }
                  /\ jobs' = written
                  /\ runs' = [runs EXCEPT ![r] =
                        [pos |-> @.pos + 1,
                         state |-> IF @.pos + 1 = Len(chain) THEN "done" ELSE "queued",
                         job |-> IF fn = "trigger_extraction" /\ Len(written) > Len(jobs)
                                 THEN Len(written) ELSE @.job]]
                  /\ last_task' = Task(r, fn, "", NoError, NoError, db, 0)
             ELSE /\ jobs' = handled.jobs
                  /\ runs' = [runs EXCEPT ![r].state = "failed"]
                  /\ last_task' = Task(r, fn, "", err, reraised(err, handled), db, 0)
                  /\ UNCHANGED artifacts
    /\ UNCHANGED << now, doc_status, api_calls, vars_post, vars_llm, vars_json,
                    vars_validate, vars_pipeline, vars_storage, vars_visual >>

\* POST /credit-request/{id}/documents for the file that becomes the
\* document: upload to RAW, store_document_metadata, trigger_extraction
UploadDocuments ==
    /\ api_calls < MaxRequests
    /\ artifacts = {} /\ jobs = <<>> /\ doc_status = None
    /\ \A r \in Runs : runs[r] = NewRun
    /\ \E upload_ok, trigger_ok \in BOOLEAN, db_doc, db_job \in DbOutcomes :
         IF ~upload_ok
         THEN /\ last_task' = Task(0, "upload_documents", "", "UploadError",
                                   "HTTPException", db_doc, 500)
              /\ UNCHANGED << artifacts, doc_status, jobs >>
         ELSE /\ artifacts' = { RAW }
              /\ doc_status' = IF db_doc = "up" THEN << "Extraktion ausstehend" >>
                               ELSE doc_status
              /\ IF trigger_ok
                 THEN /\ jobs' = save_extraction_job(jobs, db_job)
                      /\ last_task' = Task(0, "upload_documents", "", NoError,
                                           NoError, db_job, 200)
                 ELSE /\ last_task' = Task(0, "upload_documents", "", "UploadError",
                                           "HTTPException", db_doc, 500)
                      /\ UNCHANGED jobs
    /\ api_calls' = api_calls + 1
    /\ UNCHANGED << now, runs, vars_post, vars_llm, vars_json, vars_validate,
                    vars_pipeline, vars_storage, vars_visual >>

\* POST /document/{document_id}/reprocess
ReprocessDocument ==
    /\ api_calls < MaxRequests
    /\ \E trigger_ok \in BOOLEAN, db_read, db_write, db_job \in DbOutcomes :
         LET status == IF db_read = "up" THEN doc_status ELSE None
         IN  IF status = None
             THEN /\ last_task' = Task(0, "reprocess_document", "", NoError,
                                       "HTTPException", db_read, 404)
                  /\ UNCHANGED << artifacts, doc_status, jobs >>
             ELSE IF status[1] \in { "Extraktion ausstehend", "OCR läuft", "LLM läuft" }
             THEN /\ last_task' = Task(0, "reprocess_document", "", NoError,
                                       "HTTPException", db_read, 409)
                  /\ UNCHANGED << artifacts, doc_status, jobs >>
             ELSE /\ doc_status' = IF db_write = "up" THEN << "Extraktion ausstehend" >>
                                   ELSE doc_status
                  /\ IF trigger_ok
                     THEN /\ artifacts' = artifacts \cup { RAW }
                          /\ jobs' = save_extraction_job(jobs, db_job)
                          /\ last_task' = Task(0, "reprocess_document", "", NoError,
                                               NoError, db_job, 200)
                     ELSE /\ last_task' = Task(0, "reprocess_document", "", "UploadError",
                                               "HTTPException", db_write, 500)
                          /\ UNCHANGED << artifacts, jobs >>
    /\ api_calls' = api_calls + 1
    /\ UNCHANGED << now, runs, vars_post, vars_llm, vars_json, vars_validate,
                    vars_pipeline, vars_storage, vars_visual >>

NextTasks ==
    \/ \E r \in Runs : RunFullPipeline(r)
    \/ \E r \in Runs : StageTask(r)
    \/ UploadDocuments
    \/ ReprocessDocument

SpecTasks == InitTasks /\ [][NextTasks]_vars

\* a task of the chain raised
StageRaised == last_task.fn \in { chain[k] : k \in 1..Len(chain) } /\ last_task.err # NoError

\* C21: when a stage task of the pipeline raises, the task re-raises the
\* exception the stage raised, whatever happened to the status update, and
\* with the database reachable the document's most recent extraction job,
\* if there is one, has the status Fehlerhaft afterwards.
C21_FailedTaskMarksJobAndReraises ==
    StageRaised =>
        /\ last_task.raised = last_task.err
        /\ runs[last_task.run].state = "failed"
        /\ (last_task.db = "up" /\ jobs # <<>>) => jobs[Len(jobs)].status = "Fehlerhaft"
        /\ last_task.db # "up" => jobs = last_task.jobs_before

\* perform_ocr raised after the job was created and the status update itself
\* failed: the job row is as it was and the task raised the OCR error
C21_Witness ==
    /\ last_task.fn = "perform_ocr"
    /\ last_task.err = "OcrError"
    /\ last_task.db = "error"
    /\ last_task.raised = "OcrError"
    /\ jobs # <<>>
    /\ jobs[Len(jobs)].status = "Extraktion ausstehend"

\* perform_ocr raised with the database reachable: the job is Fehlerhaft
C21_WitnessMarked ==
    /\ last_task.fn = "perform_ocr"
    /\ last_task.err = "OcrError"
    /\ last_task.db = "up"
    /\ last_task.jobs_before # <<>>
    /\ jobs[Len(jobs)].status = "Fehlerhaft"

\* C22: in every run of run_full_pipeline a stage task runs only when the run
\* is queued and all its predecessors in the order trigger_extraction,
\* perform_ocr, postprocess_ocr, run_llm_extraction, generate_visualization
\* have returned; a run that failed or finished executes nothing further;
\* and a run whose five tasks all returned leaves an artifact of the
\* document in each of the five storage stages.
C22_StagesInOrderThenAllArtifacts ==
    [][\A r \in Runs :
         /\ runs[r].state \in { "failed", "done" } => runs'[r] = runs[r]
         /\ runs'[r] # runs[r] /\ runs[r].state = "queued" =>
              /\ last_task'.run = r
              /\ last_task'.fn = chain[runs[r].pos + 1]
              /\ \A k \in 1..runs[r].pos : stage_artifact(chain[k]) \in artifacts
              /\ IF last_task'.err = NoError
                 THEN /\ runs'[r].pos = runs[r].pos + 1
                      /\ stage_artifact(last_task'.fn) \in artifacts'
                 ELSE /\ runs'[r].pos = runs[r].pos
                      /\ runs'[r].state = "failed"
         /\ runs'[r].state = "done" =>
              /\ runs'[r].pos = 5
              /\ artifacts' = { RAW, OCR_RAW, OCR_CLEAN, LLM, ANNOTATED }]_vars

\* a run has gone through all five tasks while the other run failed at its
\* second task
C22_Witness ==
    /\ runs[1].state = "done"
    /\ runs[2].state = "failed"
    /\ runs[2].pos = 1
    /\ artifacts = Stages

\* the most recent job of the document was Fehlerhaft when the request came
FailedBefore(task) ==
    /\ task.jobs_before # <<>>
    /\ task.jobs_before[Len(task.jobs_before)].status = "Fehlerhaft"

\* C28: a reprocess request is answered 409 only while a run of the
\* document is in progress, and never for a document whose most recent job
\* is Fehlerhaft; an accepted request leaves the document at Extraktion
\* ausstehend unless its database write was lost.
C28_FailedDocumentIsReprocessed ==
    last_task.fn = "reprocess_document" =>
        /\ last_task.code = 409 =>
             /\ ~FailedBefore(last_task)
             /\ \E r \in Runs : runs[r].state = "queued"
        /\ (last_task.code = 200 /\ last_task.db = "up") =>
             /\ doc_status = << "Extraktion ausstehend" >>
             /\ Len(jobs) = Len(last_task.jobs_before) + 1

\* C30: a task of a run changes no job row but the one its run created, and
\* the job of a run that has finished or failed with the database reachable
\* at its last task is no longer at Extraktion ausstehend.
C30_RunWritesOnlyItsOwnJob ==
    (last_task.run \in Runs /\ last_task.fn # "run_full_pipeline") =>
        LET own == runs[last_task.run].job
        IN  /\ \A j \in 1..Len(last_task.jobs_before) :
                 j # own => jobs[j] = last_task.jobs_before[j]
            /\ (own # 0 /\ last_task.db = "up" /\ last_task.fn # "trigger_extraction"
                  /\ runs[last_task.run].state \in { "done", "failed" }) =>
                 jobs[own].status # "Extraktion ausstehend"

\* with a single job of the document the tasks of the run that created it
\* write that job: the part of C30 that holds
C30_SingleJobIsWrittenByItsRun ==
    (last_task.run \in Runs /\ last_task.fn # "run_full_pipeline"
       /\ Len(jobs) = 1 /\ runs[last_task.run].job = 1 /\ last_task.db = "up"
       /\ last_task.fn # "trigger_extraction") =>
        jobs[1].status # "Extraktion ausstehend"

\* ---------------------------------------------------------------------
\* The BlobStorage singleton of src/src/creditsystem/storage.py under
\* concurrent get_storage() calls
\* ---------------------------------------------------------------------
MaxThreads == 2

\* an object as super().__new__(cls) returns it: no attribute is set; an
\* attribute holds the thread whose __init__ created its value, 0 when unset
NewObject ==
    [initialized |-> FALSE, blob_service_client |-> 0, initialized_containers |-> 0,
     container_lock |-> 0, inits |-> 0]

\* a thread about to call get_storage()
NewThread == [pc |-> "new", self |-> 0, seen |-> None]

InitStorage ==
    /\ instance = 0
    /\ class_lock = 0
    /\ objects = <<>>
    /\ threads = [t \in 1..MaxThreads |-> NewThread]
    /\ IdlePost
    /\ IdleLLM
    /\ IdleJson
    /\ IdleValidate
    /\ IdlePipeline
    /\ IdleTasks
    /\ IdleVisual

\* __new__: the unlocked test of cls._instance; with an instance present
\* __new__ returns it and __init__ is called on it
NewCheck(t) ==
    /\ threads[t].pc = "new"
    /\ threads' = [threads EXCEPT ![t] =
          IF instance = 0 THEN [@ EXCEPT !.pc = "acquire"]
          ELSE [@ EXCEPT !.pc = "init", !.self = instance]]
    /\ UNCHANGED << instance, class_lock, objects, vars_post, vars_llm, vars_json,
                    vars_validate, vars_pipeline, vars_tasks, vars_visual >>

\* __new__: with cls._lock
NewAcquire(t) ==
    /\ threads[t].pc = "acquire"
    /\ class_lock = 0
    /\ class_lock' = t
    /\ threads' = [threads EXCEPT ![t].pc = "locked"]
    /\ UNCHANGED << instance, objects, vars_post, vars_llm, vars_json,
                    vars_validate, vars_pipeline, vars_tasks, vars_visual >>

\* __new__: the test under the lock, the creation of the object, the release
\* of the lock and the return of cls._instance
NewCreate(t) ==
    /\ threads[t].pc = "locked"
    /\ class_lock = t
    /\ IF instance = 0
       THEN /\ objects' = Append(objects, NewObject)
            /\ instance' = Len(objects) + 1
       ELSE UNCHANGED << objects, instance >>
    /\ class_lock' = 0
    /\ threads' = [threads EXCEPT ![t] = [@ EXCEPT !.pc = "init", !.self = instance']]
    /\ UNCHANGED << vars_post, vars_llm, vars_json, vars_validate, vars_pipeline,
                    vars_tasks, vars_visual >>

\* __init__: if hasattr(self, '_initialized'): return
InitCheck(t) ==
    /\ threads[t].pc = "init"
    /\ threads' = [threads EXCEPT ![t].pc =
          IF objects[threads[t].self].initialized THEN "returned"
          ELSE "blob_service_client"]
    /\ UNCHANGED << instance, class_lock, objects, vars_post, vars_llm, vars_json,
                    vars_validate, vars_pipeline, vars_tasks, vars_visual >>

\* __init__: the next assignment of the body: self.blob_service_client,
\* self._initialized_containers, self._container_lock, self._initialized
InitBody(t) ==
    LET o == threads[t].self
    IN  /\ threads[t].pc \in { "blob_service_client", "initialized_containers",
                               "container_lock", "initialized" }
        /\ objects' = [objects EXCEPT ![o] =
              CASE threads[t].pc = "blob_service_client" ->
                     [@ EXCEPT !.blob_service_client = t]
                [] threads[t].pc = "initialized_containers" ->
                     [@ EXCEPT !.initialized_containers = t]
                [] threads[t].pc = "container_lock" ->
                     [@ EXCEPT !.container_lock = t]
                [] threads[t].pc = "initialized" ->
                     [@ EXCEPT !.initialized = TRUE, !.inits = @ + 1]]
        /\ threads' = [threads EXCEPT ![t].pc =
              CASE threads[t].pc = "blob_service_client" -> "initialized_containers"
                [] threads[t].pc = "initialized_containers" -> "container_lock"
                [] threads[t].pc = "container_lock" -> "initialized"
                [] threads[t].pc = "initialized" -> "returned"]
        /\ UNCHANGED << instance, class_lock, vars_post, vars_llm, vars_json,
                        vars_validate, vars_pipeline, vars_tasks, vars_visual >>

\* the attributes of the object a thread holds, as it would read them now
AttributesOf(t) ==
    [blob_service_client |-> objects[threads[t].self].blob_service_client,
     initialized_containers |-> objects[threads[t].self].initialized_containers,
     container_lock |-> objects[threads[t].self].container_lock]

\* the caller of get_storage() starts to use the object it got: it reads the
\* client, the container set and the container lock (blob_client,
\* _ensure_container_exists)
UseStorage(t) ==
    /\ threads[t].pc = "returned"
    /\ threads' = [threads EXCEPT ![t] =
          [@ EXCEPT !.pc = "using", !.seen = << AttributesOf(t) >>]]
    /\ UNCHANGED << instance, class_lock, objects, vars_post, vars_llm, vars_json,
                    vars_validate, vars_pipeline, vars_tasks, vars_visual >>

NextStorage ==
    \E t \in 1..MaxThreads :
        \/ NewCheck(t)
        \/ NewAcquire(t)
        \/ NewCreate(t)
        \/ InitCheck(t)
        \/ InitBody(t)
        \/ UseStorage(t)

SpecStorage == InitStorage /\ [][NextStorage]_vars

\* C23: every get_storage() call returns the one BlobStorage object, its
\* __init__ body has run at most once, and the client, the container set and
\* the container lock a thread has started to use are still the ones the
\* object holds.
C23_SingletonInitializedOnce ==
    /\ Len(objects) <= 1
    /\ \A o \in 1..Len(objects) : objects[o].inits <= 1
    /\ \A t \in 1..MaxThreads :
         /\ threads[t].pc \in { "returned", "using" } => threads[t].self = instance
         /\ threads[t].pc = "using" => threads[t].seen = << AttributesOf(t) >>

\* every call returns the one object: the part of C23 that the lock in
\* __new__ does give
C23_OneInstance ==
    /\ Len(objects) <= 1
    /\ \A t \in 1..MaxThreads :
         threads[t].pc \in { "returned", "using" } => threads[t].self = instance

\* ---------------------------------------------------------------------
\* The visualizer of src/src/visualization/pdf_visualizer.py, for the items
\* of one page
\* ---------------------------------------------------------------------
MaxDrawn == 2

\* get_confidence_color(confidence)
get_confidence_color(confidence) ==
    IF confidence = None THEN "#808080"
    ELSE IF confidence[1] >= 80 THEN "#00FF00"
    ELSE IF confidence[1] >= 60 THEN "#FFFF00"
    ELSE "#FF0000"

\* text.lower().replace("?", "").replace("n", "").strip()
normalized_label(text) == strip(replace(replace(lower(text), "?", <<>>), "n", <<>>))

\* the field name of the first mapping whose normalized label is part of the
\* item's normalized label, None when there is none
RECURSIVE mapped_field_name(_, _)
mapped_field_name(label_text, field_mappings) ==
    IF field_mappings = <<>> THEN None
    ELSE IF Contains(normalized_label(label_text), normalized_label(Head(field_mappings).k))
    THEN << Head(field_mappings).v >>
    ELSE mapped_field_name(label_text, Tail(field_mappings))

\* the loop over the items of the page in visualize_extracted_fields, with
\* confidence = item.get("confidence", 0.5): the boxes drawn so far, and
\* TypeError as soon as the confidence of a mapped item with a bounding box
\* is None, which the comparison with 0.8 raises
RECURSIVE draw_items(_, _, _)
draw_items(page_items, field_mappings, boxes) ==
    IF page_items = <<>> THEN [err |-> NoError, boxes |-> boxes]
    ELSE LET item == Head(page_items)
             label_text == IF "label" \in DOMAIN item THEN item.label ELSE item.text
             field_name == mapped_field_name(label_text, field_mappings)
             confidence == GetConfDefault(item, << 50 >>)
             color == IF confidence[1] >= 80 THEN "(0, 255, 0)"
                      ELSE IF confidence[1] >= 60 THEN "(255, 165, 0)"
                      ELSE "(255, 0, 0)"
         IN  IF field_name = None
             THEN draw_items(Tail(page_items), field_mappings, boxes)
             ELSE IF confidence = None THEN [err |-> TypeError, boxes |-> boxes]
             ELSE draw_items(Tail(page_items), field_mappings,
                             Append(boxes, [item |-> item, field_name |-> field_name[1],
                                            color |-> color]))

\* visualize_extracted_fields(pdf_path, normalized_data, output_path,
\* doc_config) for a one-page PDF: nothing is drawn for an empty list, and
\* only items with a bounding box are looked at
visualize_extracted_fields(normalized_data, doc_config) ==
    IF normalized_data = <<>> THEN [err |-> NoError, boxes |-> <<>>]
    ELSE draw_items(SelectSeq(normalized_data, LAMBDA item : item.bounding_box # <<>>),
                    doc_config.field_mappings, <<>>)

\* normalized items of page 1 with a mapped or an unmapped label, with or
\* without a bounding box, and a confidence that is unknown or on either
\* side of the two thresholds
DrawnPool ==
    { LV(label, << "v" >>, 1, box, conf) :
        label \in { Fn, zz }, box \in { NearBox, <<>> },
        conf \in { None, << 0 >>, << 59 >>, << 60 >>, << 79 >>, << 80 >>, << 100 >> } }
    \cup
    { TL(Fn, 1, NearBox, conf) : conf \in { None, << 59 >>, << 80 >> } }

InitVisual ==
    /\ drawn_item \in SeqsUpTo(DrawnPool, MaxDrawn)
    /\ drawing = None
    /\ IdlePost
    /\ IdleLLM
    /\ IdleJson
    /\ IdleValidate
    /\ IdlePipeline
    /\ IdleTasks
    /\ IdleStorage

\* visualize_extracted_fields is called
Visualize ==
    /\ drawing = None
    /\ drawing' = << visualize_extracted_fields(drawn_item, DocConfig) >>
    /\ UNCHANGED << drawn_item, vars_post, vars_llm, vars_json, vars_validate,
                    vars_pipeline, vars_tasks, vars_storage >>

SpecVisual == InitVisual /\ [][Visualize]_vars

\* the tier a colour stands for, in either notation of the module
TierOf(color) ==
    CASE color \in { "#00FF00", "(0, 255, 0)" } -> "high"
      [] color \in { "#FFFF00", "(255, 165, 0)" } -> "medium"
      [] color \in { "#FF0000", "(255, 0, 0)" } -> "low"
      [] OTHER -> "neutral"

\* the items of the list that are drawn: a bounding box and a mapped label
MappedItems(list) ==
    SelectSeq(list, LAMBDA item :
        /\ item.bounding_box # <<>>
        /\ mapped_field_name(IF "label" \in DOMAIN item THEN item.label ELSE item.text,
                             DocConfig.field_mappings) # None)

\* C24: rendering a page never fails, and every mapped item is drawn, in
\* order, in the colour of its confidence tier: high from 0.8, medium from
\* 0.6, low below, and neutral for an unknown confidence.
C24_EveryMappedItemDrawnInTier ==
    drawing # None =>
        /\ drawing[1].err = NoError
        /\ Len(drawing[1].boxes) = Len(MappedItems(drawn_item))
        /\ \A n \in 1..Len(drawing[1].boxes) :
             /\ drawing[1].boxes[n].item = MappedItems(drawn_item)[n]
             /\ TierOf(drawing[1].boxes[n].color)
                  = TierOf(get_confidence_color(MappedItems(drawn_item)[n].confidence))

\* the tiers of the items whose confidence is known: the part of C24 that
\* holds
C24_KnownConfidenceDrawnInTier ==
    drawing # None =>
        \A n \in 1..Len(drawing[1].boxes) :
            /\ drawing[1].boxes[n].item.confidence # None
            /\ TierOf(drawing[1].boxes[n].color)
                 = TierOf(get_confidence_color(drawing[1].boxes[n].item.confidence))

\* ---------------------------------------------------------------------
\* The pair extractor on longer pages: label lines below each other, value
\* lines before, inside and beyond the forward window, identical lines
\* ---------------------------------------------------------------------
MaxLines == 5

\* line tokens of page 1: three label positions on the left, a value aligned
\* with the first and above the others, and a value below all of them
LinePool ==
    { Tok("line", << "a" >>, 1, LeftBox, << 90 >>),
      Tok("line", << "f" >>, 1, Box(50, 105, 40, 10), << 90 >>),
      Tok("line", << "g" >>, 1, Box(50, 110, 40, 10), None),
      Tok("line", << "b" >>, 1, NearBox, << 80 >>),
      Tok("line", << "d" >>, 1, BelowBox, << 70 >>) }

InitLines ==
    /\ ocr_lines \in SeqsUpTo(LinePool, MaxLines)
    /\ input0 = ocr_lines
    /\ pairs = None
    /\ out1 = None
    /\ out2 = None
    /\ IdleLLM
    /\ IdleJson
    /\ IdleValidate
    /\ IdlePipeline
    /\ IdleTasks
    /\ IdleStorage
    /\ IdleVisual

SpecLines == InitLines /\ [][NextPost]_vars

\* the lines the forward window of a decision may pair the label with: the
\* unused ones among the next two whose centre x is right of the split and
\* whose centre y is within the vertical tolerance of the label's
WindowCandidates(t) ==
    LET lines == BufferOf(t.page)
    IN  {j \in 1..Len(lines) :
            /\ j \in { t.li + 1, t.li + 2 }
            /\ j \notin t.used_before
            /\ FracLt([n |-> x_split, d |-> 1], get_center_x(lines[j].bounding_box))
            /\ FracDistLe(get_center_y(lines[j].bounding_box),
                          get_center_y(lines[t.li].bounding_box), y_thresh)}

\* C25: for a label line without an aligned candidate the decision is the
\* forward window's: the label is paired with the first unused line among
\* the next two that lies right of the split and within the vertical
\* tolerance, that line and the label are marked used, and without such a
\* line the label yields no pair; a window decision never takes a line
\* before the label or beyond the second line after it.
C25_WindowTakesFirstOfNextTwo ==
    PairsDone =>
        \A k \in 1..Len(PairsOut.trace) :
            LET t == PairsOut.trace[k]
            IN  /\ t.how = "window" => AlignedCandidates(t) = {}
                /\ (t.how # "colon" /\ AlignedCandidates(t) = {}) =>
                     IF WindowCandidates(t) # {}
                     THEN /\ t.how = "window"
                          /\ t.vi \in WindowCandidates(t)
                          /\ \A j \in WindowCandidates(t) : t.vi <= j
                          /\ t.marked = t.vi
                     ELSE /\ t.how = "none"
                          /\ ~t.emitted

\* a label whose next two lines do not qualify while the third line after
\* it does: the label yields no pair, and a later label takes that line
C25_Witness ==
    /\ PairsDone
    /\ \E k \in 1..Len(PairsOut.trace) :
         LET t == PairsOut.trace[k]
             lines == BufferOf(t.page)
         IN  /\ t.how = "none"
             /\ t.li + 3 <= Len(lines)
             /\ IsWindowValue(lines[t.li], lines[t.li + 3])
    /\ \E k \in 1..Len(PairsOut.trace) :
         PairsOut.trace[k].how = "window" /\ PairsOut.trace[k].emitted

\* the positions of the page buffer an emitted decision consumes: the label
\* line and the line whose text became the value
Consumed(t) == { t.li, t.vi }

\* C29: within one call no line of a page is consumed by two pairs: the
\* lines of any two emitted pairs of a page are different positions of the
\* page buffer, also when several lines of the page are identical.
C29_LineConsumedOnce ==
    PairsDone =>
        \A k1 \in 1..Len(PairsOut.trace) : \A k2 \in 1..Len(PairsOut.trace) :
            LET t1 == PairsOut.trace[k1]
                t2 == PairsOut.trace[k2]
            IN  (k1 < k2 /\ t1.emitted /\ t2.emitted /\ t1.page = t2.page) =>
                    Consumed(t1) \cap Consumed(t2) = {}

\* the same holds on pages whose lines are pairwise different: the part of
\* C29 that the used set does give
C29_DistinctLinesConsumedOnce ==
    (PairsDone /\ \A a \in 1..Len(input0) : \A b \in 1..Len(input0) :
                     a # b => input0[a] # input0[b]) =>
        \A k1 \in 1..Len(PairsOut.trace) : \A k2 \in 1..Len(PairsOut.trace) :
            LET t1 == PairsOut.trace[k1]
                t2 == PairsOut.trace[k2]
            IN  (k1 < k2 /\ t1.emitted /\ t2.emitted /\ t1.page = t2.page) =>
                    Consumed(t1) \cap Consumed(t2) = {}

\* ---------------------------------------------------------------------
\* The two writers of the Extraktionsauftrag table: DmsService
\* (src/src/dms_mock/service.py) and the pipeline (src/src/ocr/extraction.py)
\* ---------------------------------------------------------------------
MaxWrites == 4

\* the job statuses the repository writes
JobStatuses ==
    { "Extraktion ausstehend", "OCR abgeschlossen", "Extraktion abgeschlossen",
      "Fertig", "Geprüft", "Fehlerhaft" }

\* DmsService.create_extraction_job(document_id, state): INSERT a row
create_extraction_job(table, state) ==
    Append(table, [status |-> state, abgeschlossen_am |-> None])

\* DmsService.update_extraction_job(job_id, state, worker_log) at time t for
\* the job at position j: both UPDATE statements set abgeschlossen_am alike
update_extraction_job(table, j, state, t) ==
    [table EXCEPT ![j] =
        [status |-> state,
         abgeschlossen_am |-> IF state \in { "Fertig", "Fehlerhaft" }
                              THEN << t >>
                              ELSE @.abgeschlossen_am]]

InitJobs ==
    /\ jobs = <<>>
    /\ now = 1
    /\ last_task = NoTask
    /\ artifacts = {}
    /\ runs = <<>>
    /\ doc_status = None
    /\ api_calls = 0
    /\ IdlePost
    /\ IdleLLM
    /\ IdleJson
    /\ IdleValidate
    /\ IdlePipeline
    /\ IdleStorage
    /\ IdleVisual

\* a job is created, by DmsService.create_extraction_job with its default
\* state or by _save_extraction_job of trigger_extraction
CreateJob ==
    /\ now <= MaxWrites
    /\ \/ /\ jobs' = create_extraction_job(jobs, "Extraktion ausstehend")
          /\ last_task' = Task(0, "create_extraction_job", "Extraktion ausstehend",
                               NoError, NoError, "up", 0)
       \/ \E db \in DbOutcomes :
            /\ jobs' = save_extraction_job(jobs, db)
            /\ last_task' = Task(0, "_save_extraction_job", "Extraktion ausstehend",
                                 NoError, NoError, db, 0)
    /\ now' = now + 1
    /\ UNCHANGED << artifacts, runs, doc_status, api_calls, vars_post, vars_llm,
                    vars_json, vars_validate, vars_pipeline, vars_storage, vars_visual >>

\* DmsService.update_extraction_job(job_id, state, worker_log)
DmsUpdateJob ==
    /\ now <= MaxWrites
    /\ \E j \in 1..Len(jobs), state \in JobStatuses :
         /\ jobs' = update_extraction_job(jobs, j, state, now)
         /\ last_task' = Task(0, "update_extraction_job", state, NoError, NoError, "up", 0)
    /\ now' = now + 1
    /\ UNCHANGED << artifacts, runs, doc_status, api_calls, vars_post, vars_llm,
                    vars_json, vars_validate, vars_pipeline, vars_storage, vars_visual >>

\* _update_extraction_job_status(document_id, status), as the stage functions
\* and handle_extraction_error call it
PipelineUpdateJob ==
    /\ now <= MaxWrites
    /\ \E db \in DbOutcomes :
       \E status \in { "OCR abgeschlossen", "Extraktion abgeschlossen", "Fertig",
                       "Geprüft", "Fehlerhaft" } :
         /\ jobs' = update_extraction_job_status(jobs, status, db, now)
         /\ last_task' = Task(0, "_update_extraction_job_status", status,
                              NoError, NoError, db, 0)
    /\ now' = now + 1
    /\ UNCHANGED << artifacts, runs, doc_status, api_calls, vars_post, vars_llm,
                    vars_json, vars_validate, vars_pipeline, vars_storage, vars_visual >>

NextJobs == CreateJob \/ DmsUpdateJob \/ PipelineUpdateJob

SpecJobs == InitJobs /\ [][NextJobs]_vars

\* the last write was a status update
StatusUpdated == last_task.fn \in { "update_extraction_job", "_update_extraction_job_status" }

\* every job whose status is Fertig or Fehlerhaft has a finished timestamp
TerminalJobsFinished ==
    \A j \in 1..Len(jobs) :
        jobs[j].status \in { "Fertig", "Fehlerhaft" } => jobs[j].abgeschlossen_am # None

\* C27: every job whose status is Fertig or Fehlerhaft has a finished
\* timestamp, and a status update to any other status leaves the finished
\* timestamp of every job as it was.
C27_FinishedTimeFollowsTerminalStatus ==
    /\ TerminalJobsFinished
    /\ (StatusUpdated /\ last_task.arg \notin { "Fertig", "Fehlerhaft" }) =>
          \A j \in 1..Len(jobs) :
              jobs[j].abgeschlossen_am = last_task.jobs_before[j].abgeschlossen_am

\* the same with the statuses each writer itself treats as terminal: the
\* part of C27 that holds
C27_FinishedTimeFollowsWritersList ==
    /\ TerminalJobsFinished
    /\ (last_task.fn = "update_extraction_job"
          /\ last_task.arg \notin { "Fertig", "Fehlerhaft" }) =>
          \A j \in 1..Len(jobs) :
              jobs[j].abgeschlossen_am = last_task.jobs_before[j].abgeschlossen_am
    /\ (last_task.fn = "_update_extraction_job_status"
          /\ last_task.arg \notin { "Fertig", "Geprüft", "Fehlerhaft" }) =>
          \A j \in 1..Len(jobs) :
              jobs[j].abgeschlossen_am = last_task.jobs_before[j].abgeschlossen_am

====
